---- MODULE Spec2Model ----
(***************************************************************************)
(* Model of the icanhazqrcode worker (src/src/index.ts): the router, the   *)
(* input extractors of GET /qr and POST /qr, the option normalizer, the    *)
(* response builder and the advertising sanitizer of the landing page.     *)
(*                                                                         *)
(* Strings that the code inspects character by character (raw option       *)
(* values, payloads, content types, advertising identifiers) are sequences *)
(* of one-character strings.  Fixed messages and header values are TLA+    *)
(* strings.  A JavaScript number is a record [nan, val]: parseInt returns  *)
(* either NaN or an integer.                                               *)
(***************************************************************************)
EXTENDS Integers, Sequences, FiniteSets, TLC

VARIABLES
  env,        \* Env: ADSENSE_CLIENT / ADSENSE_SLOT, set at process start
  codecCap,   \* behaviour of the external codec: it throws on longer data
  request,    \* the request being handled
  pc,         \* position of the handler
  data,       \* the payload text the handler extracted (string | null)
  input,      \* the raw {scale, border, ecc} handed to parseOptions
  options,    \* the value parseOptions returned
  response,   \* the response emitted for the request
  codecCalls, \* the arguments of each codec invocation of this request
  earlier,    \* the exchanges this process completed before the current one
  inflight    \* the handler activations of the requests in flight together

vars ==
  <<env, codecCap, request, pc, data, input, options, response, codecCalls, earlier, inflight>>

(***************************************************************************)
(* Bounds of the model.                                                    *)
(***************************************************************************)
MaxRawLen == 3      \* longest raw scale / border string enumerated
MaxEccLen == 2      \* longest raw ecc string enumerated

(***************************************************************************)
(* Program constants.                                                      *)
(***************************************************************************)
MAX_DATA_LENGTH == 2048
DEFAULT_SCALE == 8
MAX_SCALE == 40
DEFAULT_BORDER == 4
MAX_BORDER == 20
DEFAULT_ERROR_CORRECTION == <<"M">>
ALLOWED_ERROR_CORRECTION == {<<"L">>, <<"M">>, <<"Q">>, <<"H">>}

(***************************************************************************)
(* string | null: a value that may be absent.                              *)
(***************************************************************************)
Absent == [present |-> FALSE, val |-> <<>>]
Some(s) == [present |-> TRUE, val |-> s]
Opt(S) == {Absent} \cup {Some(s) : s \in S}

Strs(alphabet, n) == UNION {[1..k -> alphabet] : k \in 0..n}

(***************************************************************************)
(* Characters.                                                             *)
(***************************************************************************)
DigitChars == <<"0", "1", "2", "3", "4", "5", "6", "7", "8", "9">>
LowerChars == <<"a", "b", "c", "d", "e", "f", "g", "h", "i", "j", "k", "l", "m",
                "n", "o", "p", "q", "r", "s", "t", "u", "v", "w", "x", "y", "z">>
UpperChars == <<"A", "B", "C", "D", "E", "F", "G", "H", "I", "J", "K", "L", "M",
                "N", "O", "P", "Q", "R", "S", "T", "U", "V", "W", "X", "Y", "Z">>
WhiteSpaceChars == {" ", "\t", "\n", "\r"}

IsDigit(c) == \E i \in 1..10 : DigitChars[i] = c
DigitVal(c) == (CHOOSE i \in 1..10 : DigitChars[i] = c) - 1
IsWhiteSpace(c) == c \in WhiteSpaceChars

toUpperCaseChar(c) ==
  IF \E i \in 1..26 : LowerChars[i] = c
  THEN UpperChars[CHOOSE i \in 1..26 : LowerChars[i] = c]
  ELSE c

\* String.prototype.toUpperCase
toUpperCase(s) == [i \in 1..Len(s) |-> toUpperCaseChar(s[i])]

\* String.prototype.trim
RECURSIVE trimStart(_)
trimStart(s) ==
  IF s # <<>> /\ IsWhiteSpace(Head(s)) THEN trimStart(Tail(s)) ELSE s

RECURSIVE trimEnd(_)
trimEnd(s) ==
  IF s # <<>> /\ IsWhiteSpace(s[Len(s)])
  THEN trimEnd(SubSeq(s, 1, Len(s) - 1))
  ELSE s

trim(s) == trimEnd(trimStart(s))

(***************************************************************************)
(* Number.parseInt(string, 10): skip leading white space, read an optional *)
(* sign, then the longest prefix of decimal digits; NaN when that prefix   *)
(* is empty.  Whatever follows the digits is ignored.                      *)
(***************************************************************************)
NaN == [nan |-> TRUE, val |-> 0]
Num(n) == [nan |-> FALSE, val |-> n]

RECURSIVE DigitPrefix(_)
DigitPrefix(s) ==
  IF s # <<>> /\ IsDigit(Head(s)) THEN <<Head(s)>> \o DigitPrefix(Tail(s)) ELSE <<>>

RECURSIVE DigitsValue(_)
DigitsValue(ds) ==
  IF ds = <<>> THEN 0
  ELSE 10 * DigitsValue(SubSeq(ds, 1, Len(ds) - 1)) + DigitVal(ds[Len(ds)])

parseInt(s) ==
  LET t == trimStart(s)
      signed == t # <<>> /\ Head(t) \in {"-", "+"}
      sign == IF t # <<>> /\ Head(t) = "-" THEN -1 ELSE 1
      z == DigitPrefix(IF signed THEN Tail(t) ELSE t)
  IN IF z = <<>> THEN NaN ELSE Num(sign * DigitsValue(z))

\* Number.isInteger on a value parseInt returned
NumberIsInteger(x) == ~x.nan

(***************************************************************************)
(* The option normalizer.                                                  *)
(***************************************************************************)
parseIntOrDefault_NoTrim(in, fallback) ==
  IF ~in.present \/ in.val = <<>>
  THEN Num(fallback)
  ELSE parseInt(in.val)

parseIntOrDefault(in, fallback) ==
  IF ~in.present \/ trim(in.val) = <<>>
  THEN Num(fallback)
  ELSE parseInt(in.val)

ScaleError == "scale must be an integer between 1 and " \o ToString(MAX_SCALE)
BorderError == "border must be an integer between 0 and " \o ToString(MAX_BORDER)
EccError == "ecc must be one of: L, M, Q, H"

ScaleRejected_AcceptsZero(scale) ==
  ~NumberIsInteger(scale) \/ scale.val < 0 \/ scale.val > MAX_SCALE

ScaleRejected(scale) ==
  ~NumberIsInteger(scale) \/ scale.val <= 0 \/ scale.val > MAX_SCALE

BorderRejected_NoUpperBound(border) ==
  ~NumberIsInteger(border) \/ border.val < 0

BorderRejected(border) ==
  ~NumberIsInteger(border) \/ border.val < 0 \/ border.val > MAX_BORDER

\* (input.ecc ?? DEFAULT_ERROR_CORRECTION).toUpperCase()
EccRaw_OrDefault(ecc) ==
  toUpperCase(IF ecc.present /\ ecc.val # <<>> THEN ecc.val ELSE DEFAULT_ERROR_CORRECTION)

EccRaw_BlankDefault(ecc) ==
  toUpperCase(IF ecc.present /\ trim(ecc.val) # <<>> THEN ecc.val ELSE DEFAULT_ERROR_CORRECTION)

EccRaw(ecc) ==
  toUpperCase(IF ecc.present THEN ecc.val ELSE DEFAULT_ERROR_CORRECTION)

EccRejected(eccRaw) == eccRaw \notin ALLOWED_ERROR_CORRECTION

parseOptions_BorderFirst(in) ==
  LET scale == parseIntOrDefault(in.scale, DEFAULT_SCALE)
      border == parseIntOrDefault(in.border, DEFAULT_BORDER)
      eccRaw == EccRaw(in.ecc)
  IN IF BorderRejected(border) THEN [error |-> BorderError]
     ELSE IF ScaleRejected(scale) THEN [error |-> ScaleError]
     ELSE IF EccRejected(eccRaw) THEN [error |-> EccError]
     ELSE [scale |-> scale.val, border |-> border.val, ecc |-> eccRaw]

parseOptions(in) ==
  LET scale == parseIntOrDefault(in.scale, DEFAULT_SCALE)
      border == parseIntOrDefault(in.border, DEFAULT_BORDER)
      eccRaw == EccRaw(in.ecc)
  IN IF ScaleRejected(scale) THEN [error |-> ScaleError]
     ELSE IF BorderRejected(border) THEN [error |-> BorderError]
     ELSE IF EccRejected(eccRaw) THEN [error |-> EccError]
     ELSE [scale |-> scale.val, border |-> border.val, ecc |-> eccRaw]

IsError(opts) == "error" \in DOMAIN opts

(***************************************************************************)
(* Values of the variables while nothing is held in them.                  *)
(***************************************************************************)
NoEnv == [ADSENSE_CLIENT |-> Absent, ADSENSE_SLOT |-> Absent]
NoRequest == [method |-> "none"]
NoCodecLimit == [limited |-> FALSE, cap |-> 0]
NoInput == [scale |-> Absent, border |-> Absent, ecc |-> Absent]
NoOptions == [none |-> TRUE]
NoResponse == [status |-> 0]

(***************************************************************************)
(* More string helpers.                                                    *)
(***************************************************************************)
\* String.prototype.includes
includes(s, sub) ==
  \E i \in 0..(Len(s) - Len(sub)) : SubSeq(s, i + 1, i + Len(sub)) = sub

RECURSIVE NatToStr(_)
NatToStr(n) ==
  IF n < 10 THEN <<DigitChars[n + 1]>>
  ELSE NatToStr(n \div 10) \o <<DigitChars[(n % 10) + 1]>>

IntToStr(n) == IF n < 0 THEN <<"-">> \o NatToStr(0 - n) ELSE NatToStr(n)

Rep(c, n) == [i \in 1..n |-> c]

RECURSIVE Flatten(_)
Flatten(ss) == IF ss = <<>> THEN <<>> ELSE Head(ss) \o Flatten(Tail(ss))

\* String.prototype.charCodeAt for the characters of the model: the printable
\* ASCII characters in code order from 32 (the grave accent, 96, is spelled out)
AsciiChars ==
  <<" ", "!", "\"", "#", "$", "%", "&", "'", "(", ")", "*", "+", ",", "-", ".", "/",
    "0", "1", "2", "3", "4", "5", "6", "7", "8", "9", ":", ";", "<", "=", ">", "?",
    "@", "A", "B", "C", "D", "E", "F", "G", "H", "I", "J", "K", "L", "M", "N", "O",
    "P", "Q", "R", "S", "T", "U", "V", "W", "X", "Y", "Z", "[", "\\", "]", "^", "_",
    "(grave)", "a", "b", "c", "d", "e", "f", "g", "h", "i", "j", "k", "l", "m", "n", "o",
    "p", "q", "r", "s", "t", "u", "v", "w", "x", "y", "z", "{", "|", "}", "~">>

charCode(c) ==
  CASE c = "\t" -> 9
    [] c = "\n" -> 10
    [] c = "\r" -> 13
    [] OTHER -> 31 + (CHOOSE i \in 1..Len(AsciiChars) : AsciiChars[i] = c)

(***************************************************************************)
(* JSON values, as request.json() returns them.  A number is held in       *)
(* tenths (35 is 3.5); String(number) prints it the way JavaScript does.   *)
(***************************************************************************)
Undefined == [type |-> "undefined"]
JNull == [type |-> "null"]
JBool(b) == [type |-> "boolean", bool |-> b]
JNum(t) == [type |-> "number", tenths |-> t]
JStr(s) == [type |-> "string", str |-> s]
JArr(items) == [type |-> "array", items |-> items]
JObj(fields) == [type |-> "object", fields |-> fields]
SyntaxError == [type |-> "SyntaxError"]

typeof(v) == IF v.type \in {"null", "array", "object"} THEN "object" ELSE v.type

\* !v
Falsy(v) ==
  \/ v.type \in {"undefined", "null"}
  \/ v.type = "boolean" /\ ~v.bool
  \/ v.type = "number" /\ v.tenths = 0
  \/ v.type = "string" /\ v.str = <<>>

\* payload.name
Prop(v, name) ==
  IF v.type = "object" /\ name \in DOMAIN v.fields THEN v.fields[name] ELSE Undefined

Abs(n) == IF n < 0 THEN 0 - n ELSE n

\* String(v) of a number or a string
NumberToString(t) ==
  LET whole == Abs(t) \div 10
      frac == Abs(t) % 10
      digits == NatToStr(whole) \o (IF frac = 0 THEN <<>> ELSE <<".", DigitChars[frac + 1]>>)
  IN IF t < 0 THEN <<"-">> \o digits ELSE digits

String(v) == IF v.type = "number" THEN NumberToString(v.tenths) ELSE v.str

\* the text of a JSON value, as a client writes it into the request body
ScalarText(v) ==
  CASE v.type = "null" -> <<"n", "u", "l", "l">>
    [] v.type = "boolean" ->
         IF v.bool THEN <<"t", "r", "u", "e">> ELSE <<"f", "a", "l", "s", "e">>
    [] v.type = "number" -> NumberToString(v.tenths)
    [] v.type = "string" -> <<"\"">> \o v.str \o <<"\"">>
    [] v.type = "array" /\ v.items = <<>> -> <<"[", "]">>
    [] v.type = "object" /\ DOMAIN v.fields = {} -> <<"{", "}">>

FieldNames ==
  <<[name |-> "data", chars |-> <<"d", "a", "t", "a">>],
    [name |-> "scale", chars |-> <<"s", "c", "a", "l", "e">>],
    [name |-> "border", chars |-> <<"b", "o", "r", "d", "e", "r">>],
    [name |-> "ecc", chars |-> <<"e", "c", "c">>]>>

RECURSIVE Join(_)
Join(ss) ==
  IF ss = <<>> THEN <<>>
  ELSE IF Len(ss) = 1 THEN ss[1]
  ELSE ss[1] \o <<",">> \o Join(Tail(ss))

MemberText(v, f) == <<"\"">> \o f.chars \o <<"\"", ":">> \o ScalarText(v.fields[f.name])

PresentFields(v) == SelectSeq(FieldNames, LAMBDA f : f.name \in DOMAIN v.fields)

JsonText(v) ==
  CASE v.type = "array" ->
         <<"[">> \o Join([i \in 1..Len(v.items) |-> ScalarText(v.items[i])]) \o <<"]">>
    [] v.type = "object" ->
         <<"{">> \o Join([i \in 1..Len(PresentFields(v)) |-> MemberText(v, PresentFields(v)[i])])
                 \o <<"}">>
    [] OTHER -> ScalarText(v)

JsonBody(v) == [text |-> JsonText(v), json |-> v]
TextBody(t) == [text |-> t, json |-> SyntaxError]

Field(name, v) == IF v = Undefined THEN <<>> ELSE name :> v
Object(d, s, b, e) ==
  JObj(Field("data", d) @@ Field("scale", s) @@ Field("border", b) @@ Field("ecc", e))

(***************************************************************************)
(* simpleHash: 32-bit FNV-1a.  A 32-bit word is held as two 16-bit halves  *)
(* [hi, lo], the word being hi * 65536 + lo, so that no intermediate value *)
(* leaves the integers of the checker; the arithmetic is modulo 2^32.      *)
(***************************************************************************)
FNV_OFFSET == [hi |-> 33052, lo |-> 40389]     \* 2166136261 = 0x811C9DC5
FNV_PRIME == [hi |-> 256, lo |-> 403]          \* 16777619 = 0x01000193

\* The one element of a singleton.  Only({e : x \in {a}}) is e with x the
\* value of a: a local that is computed once, like a const of the source,
\* however often e mentions it.
Only(S) == CHOOSE r \in S : TRUE

RECURSIVE XorBits(_, _, _)
XorBits(a, b, n) ==
  IF n = 0 THEN 0
  ELSE Only({(((x % 2) + (y % 2)) % 2) + 2 * XorBits(x \div 2, y \div 2, k - 1) :
               x \in {a}, y \in {b}, k \in {n}})

\* hash ^= code, for a code below 2^16
xor(w, code) == [hi |-> w.hi, lo |-> XorBits(w.lo, code, 16)]

\* Math.imul(w, m) as an unsigned word
imul(w, m) ==
  LET low == w.lo * m.lo
      mid == w.hi * m.lo + (w.lo % 256) * m.hi + (low \div 65536)
  IN [hi |-> mid % 65536, lo |-> low % 65536]

RECURSIVE fnv1a_MultiplyFirst(_, _, _, _)
fnv1a_MultiplyFirst(value, lo, hi, hash) ==
  Only({IF l > h THEN w
        ELSE IF l = h THEN Only({xor(x, charCode(v[l])) : x \in {imul(w, FNV_PRIME)}})
        ELSE Only({fnv1a_MultiplyFirst(v, ((l + h) \div 2) + 1, h, left) :
                     left \in {fnv1a_MultiplyFirst(v, l, (l + h) \div 2, w)}}) :
          v \in {value}, l \in {lo}, h \in {hi}, w \in {hash}})

\* the loop of simpleHash over the units lo..hi of value, left to right; the
\* range is split in halves, and the hash of the left half is a value
\* before the right half starts, so that the evaluation stays shallow
RECURSIVE fnv1a(_, _, _, _)
fnv1a(value, lo, hi, hash) ==
  Only({IF l > h THEN w
        ELSE IF l = h THEN Only({imul(x, FNV_PRIME) : x \in {xor(w, charCode(v[l]))}})
        ELSE Only({fnv1a(v, ((l + h) \div 2) + 1, h, left) :
                     left \in {fnv1a(v, l, (l + h) \div 2, w)}}) :
          v \in {value}, l \in {lo}, h \in {hi}, w \in {hash}})

HexChars == <<"0", "1", "2", "3", "4", "5", "6", "7", "8", "9", "a", "b", "c", "d", "e", "f">>

RECURSIVE NatToHex(_)
NatToHex(n) ==
  IF n < 16 THEN <<HexChars[n + 1]>>
  ELSE NatToHex(n \div 16) \o <<HexChars[(n % 16) + 1]>>

PadHex4(h) == Rep("0", 4 - Len(h)) \o h

\* (hash >>> 0).toString(16)
toString16(w) ==
  IF w.hi = 0 THEN NatToHex(w.lo) ELSE NatToHex(w.hi) \o PadHex4(NatToHex(w.lo))

simpleHash(value) ==
  Only({toString16(hash) : hash \in {fnv1a(v, 1, Len(v), FNV_OFFSET) : v \in {value}}})

(***************************************************************************)
(* Responses.  Headers are a function from header names to values.         *)
(***************************************************************************)
Response(body, status, headers) == [status |-> status, headers |-> headers, body |-> body]

json_NoCacheControl(value, status) ==
  Response([kind |-> "json", value |-> value], status,
           "content-type" :> "application/json; charset=utf-8")

json(value, status) ==
  Response([kind |-> "json", value |-> value], status,
           "content-type" :> "application/json; charset=utf-8" @@ "cache-control" :> "no-store")

badRequest_Ok(message) == json([error |-> message], 200)

badRequest(message) == json([error |-> message], 400)

NotFoundHint ==
  "Use GET /qr?data=hello or POST /qr with raw text or JSON {\"data\":\"hello\"}"

notFound == json([error |-> "Not Found", hint |-> NotFoundHint], 404)

healthResponse_Cached ==
  Response([kind |-> "json", value |-> [service |-> "icanhazqrcode", endpoints |-> <<"GET /qr">>]],
           200,
           "content-type" :> "application/json; charset=utf-8"
             @@ "cache-control" :> "public, max-age=300")

healthResponse ==
  json([service |-> "icanhazqrcode",
        endpoints |-> <<"GET / (landing page with QR form + optional ad slot)",
                        "GET /robots.txt",
                        "GET /sitemap.xml",
                        "GET /llms.txt",
                        "GET /qr?data=<text>&scale=8&border=4&ecc=M",
                        "POST /qr (text/plain or application/json {data, scale, border, ecc})">>],
       200)

StaticDocument(name, origin, contentType) ==
  Response([kind |-> name, origin |-> origin], 200,
           "content-type" :> contentType @@ "cache-control" :> "public, max-age=3600")

robotsTxt(url) == StaticDocument("robots.txt", url.origin, "text/plain; charset=utf-8")
sitemapXml(url) == StaticDocument("sitemap.xml", url.origin, "application/xml; charset=utf-8")
llmsTxt(url) == StaticDocument("llms.txt", url.origin, "text/plain; charset=utf-8")

(***************************************************************************)
(* The advertising sanitizer and the landing page.  The page is the        *)
(* sequence of its elements; an element carries the strings interpolated   *)
(* into it.                                                                *)
(***************************************************************************)
AD_CLIENT_PREFIX == <<"c", "a", "-", "p", "u", "b", "-">>
AD_CLIENT_MIN_DIGITS == 10
AD_CLIENT_MAX_DIGITS == 20
AD_SLOT_MIN_DIGITS == 5
AD_SLOT_MAX_DIGITS == 20

DigitRun_Unbounded(s, lo, hi) ==
  /\ Len(s) >= lo
  /\ \A i \in 1..Len(s) : IsDigit(s[i])

\* /^\d{lo,hi}$/
DigitRun(s, lo, hi) ==
  /\ Len(s) >= lo
  /\ Len(s) <= hi
  /\ \A i \in 1..Len(s) : IsDigit(s[i])

\* /^ca-pub-\d{10,20}$/
AdClientPattern(v) ==
  /\ Len(v) >= Len(AD_CLIENT_PREFIX)
  /\ SubSeq(v, 1, Len(AD_CLIENT_PREFIX)) = AD_CLIENT_PREFIX
  /\ DigitRun(SubSeq(v, Len(AD_CLIENT_PREFIX) + 1, Len(v)),
              AD_CLIENT_MIN_DIGITS, AD_CLIENT_MAX_DIGITS)

\* /^\d{5,20}$/
AdSlotPattern(v) == DigitRun(v, AD_SLOT_MIN_DIGITS, AD_SLOT_MAX_DIGITS)

safeAdClient_NonEmpty(value) ==
  IF ~value.present \/ value.val = <<>> THEN Absent ELSE value

safeAdClient(value) ==
  IF ~value.present \/ value.val = <<>> THEN Absent
  ELSE IF AdClientPattern(value.val) THEN value ELSE Absent

safeAdSlot(value) ==
  IF ~value.present \/ value.val = <<>> THEN Absent
  ELSE IF AdSlotPattern(value.val) THEN value ELSE Absent

Element(tag, attrs, args) == [tag |-> tag, attrs |-> attrs, args |-> args]

adsenseScriptMarkup(adClient) ==
  <<Element("script",
            "async src=https://pagead2.googlesyndication.com/pagead/js/adsbygoogle.js?client=${adClient} crossorigin=anonymous",
            <<adClient>>)>>

adsenseMetaMarkup(adClient) ==
  <<Element("meta", "name=google-adsense-account content=${adClient}", <<adClient>>)>>

adUnitMarkup(adClient, adSlot) ==
  <<Element("ins", "class=adsbygoogle data-ad-client=${adClient} data-ad-slot=${adSlot}",
            <<adClient, adSlot>>),
    Element("script", "(adsbygoogle=window.adsbygoogle||[]).push({});", <<>>)>>

fallbackAdMarkup == <<Element("div", "class=ad-fallback", <<>>)>>

landingPage(url, e) ==
  LET adClient == safeAdClient(e.ADSENSE_CLIENT)
      adSlot == safeAdSlot(e.ADSENSE_SLOT)
      adEnabled == adClient.present /\ adSlot.present
      adMarkup == IF adEnabled THEN adUnitMarkup(adClient.val, adSlot.val) ELSE fallbackAdMarkup
      adScript == IF adClient.present THEN adsenseScriptMarkup(adClient.val) ELSE <<>>
      adMeta == IF adClient.present THEN adsenseMetaMarkup(adClient.val) ELSE <<>>
      html == <<Element("link", "rel=canonical href=${siteUrl}/", <<>>)>>
              \o adMeta
              \o <<Element("script", "type=application/ld+json ${faqSchema}", <<>>)>>
              \o adScript
              \o <<Element("style", ".ad-fallback", <<>>),
                   Element("form", "id=qr-form", <<>>),
                   Element("p", "class=ad-label", <<>>)>>
              \o adMarkup
              \o <<Element("script", "qr-form submit handler", <<>>)>>
  IN Response([kind |-> "html", origin |-> url.origin, html |-> html], 200,
              "content-type" :> "text/html; charset=utf-8"
                @@ "cache-control" :> "public, max-age=300")

(***************************************************************************)
(* The codec (qrcode-generator) is an external collaborator: for the       *)
(* lifetime of the process it is a fixed function of its arguments that    *)
(* either throws (the payload exceeds the capacity codecCap stands for) or *)
(* returns the SVG text of the symbol.                                     *)
(***************************************************************************)
CodecThrows(call, cap) == cap.limited /\ Len(call.data) > cap.cap

createSvgTag(call) ==
  <<"<", "s", "v", "g", " ">> \o IntToStr(call.cellSize) \o <<",">> \o IntToStr(call.margin)
    \o <<",">> \o call.ecc \o <<">">> \o call.data \o <<"<", "/", "s", "v", "g", ">">>

\* new TextEncoder().encode(svg), for the one-byte characters of the model
TextEncode(str) == Only({[i \in 1..Len(s) |-> charCode(s[i])] : s \in {str}})

DataTooLong == "Data too long. Max length is " \o ToString(MAX_DATA_LENGTH) \o " characters."
UnableToEncode == "Unable to encode QR for the provided input and options"

\* what the codec throws when the payload does not fit
CodecError(call, cap) == "code length overflow"

Caught_ExposesCause(e) == badRequest(e)

\* catch { ... }: the thrown value is not bound
Caught(e) == badRequest(UnableToEncode)

WeakEtag_Salted(svg) ==
  <<"W", "/", "\"">> \o simpleHash(svg \o <<IF request.method = "GET" THEN "G" ELSE "P">>) \o <<"\"">>

WeakEtag_Strong(svg) == <<"\"">> \o simpleHash(svg) \o <<"\"">>

\* `W/\"${simpleHash(svg)}\"`
WeakEtag(svg) == <<"W", "/", "\"">> \o simpleHash(svg) \o <<"\"">>

DataLengthExceeded_Inclusive(d) == Len(d) >= MAX_DATA_LENGTH

\* data.length > MAX_DATA_LENGTH
DataLengthExceeded(d) == Len(d) > MAX_DATA_LENGTH

\* the response and the codec invocations made for it
buildQrResponse(d, opts, cap) ==
  IF DataLengthExceeded(d)
  THEN [response |-> badRequest(DataTooLong), calls |-> <<>>]
  ELSE Only({
         IF CodecThrows(call, cap)
         THEN [response |-> Caught(CodecError(call, cap)), calls |-> <<call>>]
         ELSE Only({
                [response |->
                   Response([kind |-> "svg", bytes |-> body], 200,
                            "content-type" :> "image/svg+xml; charset=utf-8"
                              @@ "content-length" :> ToString(Len(body))
                              @@ "cache-control" :> "public, max-age=300"
                              @@ "etag" :> etag
                              @@ "x-content-type-options" :> "nosniff"),
                 calls |-> <<call>>] :
                  body \in {TextEncode(createSvgTag(call))},
                  etag \in {WeakEtag(createSvgTag(call))}}) :
           call \in {[data |-> d, ecc |-> opts.ecc, cellSize |-> opts.scale,
                      margin |-> opts.border]}})

NoData_AbsentOnly(d) == ~d.present

\* !data
NoData(d) == ~d.present \/ d.val = <<>>

\* what a handler leaves behind: its locals, the response, the codec calls
Outcome(d, in, opts, resp, calls) ==
  [data |-> d, input |-> in, options |-> opts, response |-> resp, calls |-> calls]

parseAndBuild_LengthFirst(d, in, cap) ==
  Only({
    IF DataLengthExceeded(d.val)
    THEN Outcome(d, in, opts, badRequest(DataTooLong), <<>>)
    ELSE IF IsError(opts)
    THEN Outcome(d, in, opts, badRequest(opts.error), <<>>)
    ELSE Only({Outcome(d, in, opts, built.response, built.calls) :
                 built \in {buildQrResponse(d.val, opts, cap)}}) :
      opts \in {parseOptions(in)}})

\* parseOptions, then buildQrResponse unless the options are an error
parseAndBuild(d, in, cap) ==
  Only({
    IF IsError(opts)
    THEN Outcome(d, in, opts, badRequest(opts.error), <<>>)
    ELSE Only({Outcome(d, in, opts, built.response, built.calls) :
                 built \in {buildQrResponse(d.val, opts, cap)}}) :
      opts \in {parseOptions(in)}})

QueryOptions(url) ==
  [scale |-> url.query.scale, border |-> url.query.border, ecc |-> url.query.ecc]

qrFromQuery_NoDataCheck(url, cap) ==
  parseAndBuild(url.query.data, QueryOptions(url), cap)

qrFromQuery(url, cap) ==
  LET d == url.query.data
  IN IF NoData(d)
     THEN Outcome(d, NoInput, NoOptions,
                  badRequest("Missing required query parameter: data"), <<>>)
     ELSE parseAndBuild(d, QueryOptions(url), cap)

\* request.headers.get("content-type") || ""
ContentTypeOf(req) == IF req.contentType.present THEN req.contentType.val ELSE <<>>

APPLICATION_JSON == <<"a", "p", "p", "l", "i", "c", "a", "t", "i", "o", "n", "/", "j", "s", "o", "n">>

IsJsonRequest_IgnoreCase(req) ==
  \/ includes(ContentTypeOf(req), APPLICATION_JSON)
  \/ includes(ContentTypeOf(req), <<"/", "J", "S", "O", "N">>)

\* contentType.includes("application/json")
IsJsonRequest(req) == includes(ContentTypeOf(req), APPLICATION_JSON)

NumberOrString_QueryFirst(v, local) ==
  IF ~local.present /\ typeof(v) \in {"number", "string"} THEN Some(String(v)) ELSE local

NumberOrString_SkipBlank(v, local) ==
  IF typeof(v) = "number" \/ (typeof(v) = "string" /\ trim(v.str) # <<>>)
  THEN Some(String(v))
  ELSE local

\* the body field overrides the local when it is a number or a string
NumberOrString(v, local) ==
  IF typeof(v) \in {"number", "string"} THEN Some(String(v)) ELSE local

\* the body field overrides the local when it is a string
StringOnly(v, local) == IF typeof(v) = "string" THEN Some(v.str) ELSE local

qrFromBodyJson_TextFallback(req, in, cap) ==
  LET body == req.body.json
  IN IF body = SyntaxError
     THEN parseAndBuild(Some(req.body.text), in, cap)
     ELSE IF Falsy(body) \/ typeof(body) # "object"
     THEN Outcome(Absent, in, NoOptions, badRequest("JSON body must be an object"), <<>>)
     ELSE LET d == StringOnly(Prop(body, "data"), Absent)
              merged == [scale |-> NumberOrString(Prop(body, "scale"), in.scale),
                         border |-> NumberOrString(Prop(body, "border"), in.border),
                         ecc |-> StringOnly(Prop(body, "ecc"), in.ecc)]
          IN IF NoData(d)
             THEN Outcome(d, merged, NoOptions, badRequest("Missing data in request body"), <<>>)
             ELSE parseAndBuild(d, merged, cap)

qrFromBodyJson_QueryData(req, in, cap) ==
  LET body == req.body.json
  IN IF body = SyntaxError
     THEN Outcome(Absent, in, NoOptions, badRequest("Invalid JSON body"), <<>>)
     ELSE IF Falsy(body) \/ typeof(body) # "object"
     THEN Outcome(Absent, in, NoOptions, badRequest("JSON body must be an object"), <<>>)
     ELSE LET d == StringOnly(Prop(body, "data"), req.query.data)
              merged == [scale |-> NumberOrString(Prop(body, "scale"), in.scale),
                         border |-> NumberOrString(Prop(body, "border"), in.border),
                         ecc |-> StringOnly(Prop(body, "ecc"), in.ecc)]
          IN IF NoData(d)
             THEN Outcome(d, merged, NoOptions, badRequest("Missing data in request body"), <<>>)
             ELSE parseAndBuild(d, merged, cap)

\* qrFromBody after `await request.json()`
qrFromBodyJson(req, in, cap) ==
  LET body == req.body.json
  IN IF body = SyntaxError
     THEN Outcome(Absent, in, NoOptions, badRequest("Invalid JSON body"), <<>>)
     ELSE IF Falsy(body) \/ typeof(body) # "object"
     THEN Outcome(Absent, in, NoOptions, badRequest("JSON body must be an object"), <<>>)
     ELSE LET d == StringOnly(Prop(body, "data"), Absent)
              merged == [scale |-> NumberOrString(Prop(body, "scale"), in.scale),
                         border |-> NumberOrString(Prop(body, "border"), in.border),
                         ecc |-> StringOnly(Prop(body, "ecc"), in.ecc)]
          IN IF NoData(d)
             THEN Outcome(d, merged, NoOptions, badRequest("Missing data in request body"), <<>>)
             ELSE parseAndBuild(d, merged, cap)

qrFromBodyText_Trimmed(req, in, cap) ==
  LET d == Some(trim(req.body.text))
  IN IF NoData(d)
     THEN Outcome(d, in, NoOptions, badRequest("Missing data in request body"), <<>>)
     ELSE parseAndBuild(d, in, cap)

\* qrFromBody after `await request.text()`
qrFromBodyText(req, in, cap) ==
  LET d == Some(req.body.text)
  IN IF NoData(d)
     THEN Outcome(d, in, NoOptions, badRequest("Missing data in request body"), <<>>)
     ELSE parseAndBuild(d, in, cap)

Route_TrailingSlash(req) ==
  IF req.method = "GET" /\ req.pathname = "/" THEN "landingPage"
  ELSE IF req.method = "GET" /\ req.pathname \in {"/health", "/health/"} THEN "healthResponse"
  ELSE IF req.method = "GET" /\ req.pathname = "/robots.txt" THEN "robotsTxt"
  ELSE IF req.method = "GET" /\ req.pathname = "/sitemap.xml" THEN "sitemapXml"
  ELSE IF req.method = "GET" /\ req.pathname = "/llms.txt" THEN "llmsTxt"
  ELSE IF req.method = "GET" /\ req.pathname \in {"/qr", "/qr/"} THEN "qrFromQuery"
  ELSE IF req.method = "POST" /\ req.pathname \in {"/qr", "/qr/"} THEN "qrFromBody"
  ELSE "notFound"

\* the chain of tests in fetch
Route(req) ==
  IF req.method = "GET" /\ req.pathname = "/" THEN "landingPage"
  ELSE IF req.method = "GET" /\ req.pathname = "/health" THEN "healthResponse"
  ELSE IF req.method = "GET" /\ req.pathname = "/robots.txt" THEN "robotsTxt"
  ELSE IF req.method = "GET" /\ req.pathname = "/sitemap.xml" THEN "sitemapXml"
  ELSE IF req.method = "GET" /\ req.pathname = "/llms.txt" THEN "llmsTxt"
  ELSE IF req.method = "GET" /\ req.pathname = "/qr" THEN "qrFromQuery"
  ELSE IF req.method = "POST" /\ req.pathname = "/qr" THEN "qrFromBody"
  ELSE "notFound"

(***************************************************************************)
(* SpecOptions: parseOptions as a pure function of its raw input.          *)
(***************************************************************************)
RawNumChars == {"0", "1", "2", "4", "-", "+", " ", ".", "x"}
RawEccChars == {"L", "M", "Q", "H", "l", "q", "X", " "}

\* the raw values the documentation and the README name
ExampleRaws ==
  {<<"3", ".", "5">>, <<"0", "x", "1", "0">>, <<"8", "a", "b", "c">>,
   <<"a", "b", "c">>, <<"-", "3">>, <<"8">>, <<"1", "0">>}

RawNums == Strs(RawNumChars, MaxRawLen) \cup ExampleRaws
RawEccs == Strs(RawEccChars, MaxEccLen)

OptionInputs ==
  {[scale |-> s, border |-> b, ecc |-> e] :
      s \in Opt(RawNums), b \in {Absent, Some(<<"2", "1">>)}, e \in {Absent, Some(<<"X">>)}}
  \cup
  {[scale |-> s, border |-> b, ecc |-> e] :
      s \in {Absent, Some(<<"4", "1">>)}, b \in Opt(RawNums), e \in {Absent, Some(<<"X">>)}}
  \cup
  {[scale |-> s, border |-> b, ecc |-> e] :
      s \in {Absent, Some(<<"4", "0">>), Some(<<"0">>)},
      b \in {Absent, Some(<<"0">>), Some(<<"-", "1">>)},
      e \in Opt(RawEccs)}

InitOptions ==
  /\ env = NoEnv
  /\ codecCap = NoCodecLimit
  /\ request = NoRequest
  /\ pc = "parseOptions"
  /\ data = Absent
  /\ input \in OptionInputs
  /\ options = NoOptions
  /\ response = NoResponse
  /\ codecCalls = <<>>
  /\ earlier = <<>>
  /\ inflight = <<>>

ParseOptions ==
  /\ pc = "parseOptions"
  /\ options' = parseOptions(input)
  /\ pc' = "parsed"
  /\ UNCHANGED <<env, codecCap, request, data, input, response, codecCalls, earlier, inflight>>

NextOptions == ParseOptions

SpecOptions == InitOptions /\ [][NextOptions]_vars

(***************************************************************************)
(* Spec: the worker handling a request.  Init is the started process: the   *)
(* advertising configuration and the codec are fixed, no request has       *)
(* arrived.  Nothing of a request outlives its response, so one request    *)
(* per behaviour covers the worker.                                        *)
(***************************************************************************)
MaxCodecCap == 1    \* largest finite codec capacity enumerated

CodecCaps == {NoCodecLimit} \cup {[limited |-> TRUE, cap |-> c] : c \in 0..MaxCodecCap}

ValidAdClient == AD_CLIENT_PREFIX \o Rep("1", AD_CLIENT_MIN_DIGITS)
ValidAdSlot == Rep("7", AD_SLOT_MIN_DIGITS)

Envs ==
  {NoEnv, [ADSENSE_CLIENT |-> Some(ValidAdClient), ADSENSE_SLOT |-> Some(ValidAdSlot)]}

Origins == {"https://icanhazqrcode.example", "http://127.0.0.1:8787"}
Methods == {"GET", "POST", "PUT"}
Paths == {"/", "/health", "/robots.txt", "/sitemap.xml", "/llms.txt", "/qr",
          "/qr/", "/health/", "/nonexistent"}

TEXT_PLAIN == <<"t", "e", "x", "t", "/", "p", "l", "a", "i", "n">>
APPLICATION_JSON_UTF8 == APPLICATION_JSON \o <<";", " ", "c", "h", "a", "r", "s", "e", "t", "=", "u", "t", "f", "-", "8">>
APPLICATION_JSON_UPPER == <<"A", "p", "p", "l", "i", "c", "a", "t", "i", "o", "n", "/", "J", "S", "O", "N">>

EmptyQuery == [data |-> Absent, scale |-> Absent, border |-> Absent, ecc |-> Absent]

Req(method, pathname, origin, query, contentType, body) ==
  [method |-> method, pathname |-> pathname, origin |-> origin, query |-> query,
   contentType |-> contentType, body |-> body]

\* every method on every path
RoutingRequests ==
  {Req(m, p, o, q, Absent, TextBody(<<>>)) :
     m \in Methods, p \in Paths, o \in Origins,
     q \in {EmptyQuery, [EmptyQuery EXCEPT !.data = Some(<<"a">>)]}}

\* GET /qr with the options in the query string
GetRequests ==
  {Req("GET", "/qr", "https://icanhazqrcode.example",
       [data |-> d, scale |-> s, border |-> b, ecc |-> e], Absent, TextBody(<<>>)) :
     d \in {Absent, Some(<<>>), Some(<<"a">>), Some(<<"h", "i">>), Some(<<" ">>)},
     s \in {Absent, Some(<<>>), Some(<<" ">>), Some(<<"4">>), Some(<<"4", "1">>),
            Some(<<"3", ".", "5">>)},
     b \in {Absent, Some(<<" ">>), Some(<<"0">>), Some(<<"2", "1">>)},
     e \in {Absent, Some(<<>>), Some(<<"q">>), Some(<<"X">>)}}

PostQueries ==
  {[data |-> d, scale |-> s, border |-> b, ecc |-> e] :
     d \in {Absent, Some(<<"q">>)},
     s \in {Absent, Some(<<"4">>), Some(<<"0">>)},
     b \in {Absent, Some(<<"2">>)},
     e \in {Absent, Some(<<"h">>)}}

\* the values a field of a JSON body takes
DataFields == {Undefined, JStr(<<>>), JStr(<<"a">>), JStr(<<"h", "i">>), JNum(50), JNull}
NumberFields ==
  {Undefined, JNum(100), JNum(0), JNum(35), JNum(-10), JStr(<<"1", "0">>), JStr(<<>>),
   JStr(<<" ">>), JStr(<<"x">>), JBool(TRUE), JNull}
\* fields whose value is itself an array or an object
NestedFields == {JArr(<<>>), JObj(<<>>)}
EccFields == {Undefined, JStr(<<"q">>), JStr(<<"L">>), JStr(<<>>), JStr(<<"X">>), JNum(10), JNull}

JsonObjects ==
  {Object(d, s, Undefined, Undefined) : d \in DataFields, s \in NumberFields}
  \cup {Object(JStr(<<"a">>), Undefined, b, Undefined) : b \in NumberFields}
  \cup {Object(JStr(<<"a">>), Undefined, Undefined, e) : e \in EccFields}
  \cup {Object(JStr(<<"a">>), s, b, e) :
          s \in {JNum(100), JBool(TRUE)}, b \in {JNum(0), JNull}, e \in {JStr(<<"q">>), JNum(10)}}
  \cup {Object(JStr(<<"a">>), s, b, Undefined) :
          s \in NestedFields \cup {Undefined}, b \in NestedFields \cup {Undefined}}

JsonValues ==
  {JNull, JBool(TRUE), JBool(FALSE), JNum(0), JNum(70), JStr(<<>>), JStr(<<"h", "i">>),
   JArr(<<>>), JArr(<<JNum(10), JStr(<<"a">>)>>)}
  \cup JsonObjects

\* POST /qr with a JSON content type: well-formed and malformed bodies
JsonPostRequests ==
  {Req("POST", "/qr", "https://icanhazqrcode.example", q, Some(APPLICATION_JSON), body) :
     q \in PostQueries,
     body \in {JsonBody(v) : v \in JsonValues}
              \cup {TextBody(<<>>), TextBody(<<"h", "i">>), TextBody(<<"{">>)}}
  \cup
  {Req("POST", "/qr", "https://icanhazqrcode.example", q, Some(APPLICATION_JSON_UTF8), body) :
     q \in {EmptyQuery, [EmptyQuery EXCEPT !.scale = Some(<<"4">>)]},
     body \in {JsonBody(JNull), TextBody(<<"{">>),
               JsonBody(Object(JStr(<<"a">>), JNum(100), Undefined, Undefined))}}

\* POST /qr with another content type or none
TextPostRequests ==
  {Req("POST", "/qr", "https://icanhazqrcode.example", q, ct, body) :
     q \in PostQueries,
     ct \in {Absent, Some(<<>>), Some(TEXT_PLAIN), Some(APPLICATION_JSON_UPPER)},
     body \in {TextBody(<<>>), TextBody(<<"h", "i">>), TextBody(<<" ">>), TextBody(<<" ", "a", " ">>),
               JsonBody(JNull),
               JsonBody(Object(JStr(<<"a">>), JNum(100), Undefined, JStr(<<"q">>)))}}

\* payloads at the length limit and one character beyond it
LongPayloads == {Rep("a", MAX_DATA_LENGTH), Rep("a", MAX_DATA_LENGTH + 1)}

LongRequests ==
  {Req("GET", "/qr", "https://icanhazqrcode.example",
       [EmptyQuery EXCEPT !.data = Some(d), !.scale = s], Absent, TextBody(<<>>)) :
     d \in LongPayloads, s \in {Absent, Some(<<"4", "1">>)}}
  \cup
  {Req("POST", "/qr", "https://icanhazqrcode.example", EmptyQuery, Some(TEXT_PLAIN), TextBody(d)) :
     d \in LongPayloads}
  \cup
  {Req("POST", "/qr", "https://icanhazqrcode.example", EmptyQuery, Some(APPLICATION_JSON),
       JsonBody(Object(JStr(d), s, Undefined, Undefined))) :
     d \in LongPayloads, s \in {Undefined, JNum(0)}}

Requests ==
  RoutingRequests \cup GetRequests \cup JsonPostRequests \cup TextPostRequests \cup LongRequests

Init ==
  /\ env \in Envs
  /\ codecCap \in CodecCaps
  /\ request = NoRequest
  /\ pc = "idle"
  /\ data = Absent
  /\ input = NoInput
  /\ options = NoOptions
  /\ response = NoResponse
  /\ codecCalls = <<>>
  /\ earlier = <<>>
  /\ inflight = <<>>

\* a request arrives
Receive ==
  /\ pc = "idle"
  /\ request' \in Requests
  /\ pc' = "fetch"
  /\ UNCHANGED <<env, codecCap, data, input, options, response, codecCalls, earlier, inflight>>

\* a handler that needs no option parsing returns its response
Respond(resp) ==
  /\ response' = resp
  /\ pc' = "done"
  /\ UNCHANGED <<env, codecCap, request, data, input, options, codecCalls, earlier, inflight>>

Return_RetryOnFailure(out) ==
  /\ \E o \in {out} :
       /\ data' = o.data
       /\ input' = o.input
       /\ options' = o.options
       /\ response' = o.response
       /\ codecCalls' = codecCalls \o o.calls
       /\ pc' = IF o.response.status = 400 THEN "fetch" ELSE "done"
  /\ UNCHANGED <<env, codecCap, request, earlier, inflight>>

\* a /qr handler returns
Return(out) ==
  /\ \E o \in {out} :
       /\ data' = o.data
       /\ input' = o.input
       /\ options' = o.options
       /\ response' = o.response
       /\ codecCalls' = codecCalls \o o.calls
  /\ pc' = "done"
  /\ UNCHANGED <<env, codecCap, request, earlier, inflight>>

FetchLandingPage ==
  /\ pc = "fetch"
  /\ Route(request) = "landingPage"
  /\ Respond(landingPage(request, env))

FetchHealth ==
  /\ pc = "fetch"
  /\ Route(request) = "healthResponse"
  /\ Respond(healthResponse)

FetchRobotsTxt ==
  /\ pc = "fetch"
  /\ Route(request) = "robotsTxt"
  /\ Respond(robotsTxt(request))

FetchSitemapXml ==
  /\ pc = "fetch"
  /\ Route(request) = "sitemapXml"
  /\ Respond(sitemapXml(request))

FetchLlmsTxt ==
  /\ pc = "fetch"
  /\ Route(request) = "llmsTxt"
  /\ Respond(llmsTxt(request))

FetchQrFromQuery ==
  /\ pc = "fetch"
  /\ Route(request) = "qrFromQuery"
  /\ Return(qrFromQuery(request, codecCap))

\* qrFromBody up to its await: the locals hold the query options
FetchQrFromBody ==
  /\ pc = "fetch"
  /\ Route(request) = "qrFromBody"
  /\ input' = QueryOptions(request)
  /\ pc' = IF IsJsonRequest(request) THEN "await request.json()" ELSE "await request.text()"
  /\ UNCHANGED <<env, codecCap, request, data, options, response, codecCalls, earlier, inflight>>

QrFromBodyJson ==
  /\ pc = "await request.json()"
  /\ Return(qrFromBodyJson(request, input, codecCap))

QrFromBodyText ==
  /\ pc = "await request.text()"
  /\ Return(qrFromBodyText(request, input, codecCap))

FetchNotFound ==
  /\ pc = "fetch"
  /\ Route(request) = "notFound"
  /\ Respond(notFound)

Next ==
  \/ Receive
  \/ FetchLandingPage
  \/ FetchHealth
  \/ FetchRobotsTxt
  \/ FetchSitemapXml
  \/ FetchLlmsTxt
  \/ FetchQrFromQuery
  \/ FetchQrFromBody
  \/ QrFromBodyJson
  \/ QrFromBodyText
  \/ FetchNotFound

Spec == Init /\ [][Next]_vars

\* the steps of a handler; the runtime runs a handler to its return and
\* resolves the read of a request body
HandlerStep ==
  \/ FetchLandingPage
  \/ FetchHealth
  \/ FetchRobotsTxt
  \/ FetchSitemapXml
  \/ FetchLlmsTxt
  \/ FetchQrFromQuery
  \/ FetchQrFromBody
  \/ QrFromBodyJson
  \/ QrFromBodyText
  \/ FetchNotFound

\* the requests of FairSpec: every method on every path, the payloads at
\* the length limit, and for each /qr handler its failure and success paths
LiveRequests ==
  RoutingRequests
    \cup LongRequests
    \cup {r \in GetRequests : ~r.query.border.present /\ r.query.ecc \in {Absent, Some(<<"X">>)}}
    \cup {r \in JsonPostRequests \cup TextPostRequests : r.query = EmptyQuery}

ReceiveLive ==
  /\ pc = "idle"
  /\ request' \in LiveRequests
  /\ pc' = "fetch"
  /\ UNCHANGED <<env, codecCap, data, input, options, response, codecCalls, earlier, inflight>>

NextLive == ReceiveLive \/ HandlerStep

FairSpec == Init /\ [][NextLive]_vars /\ WF_vars(HandlerStep)

(***************************************************************************)
(* SpecPair: the same process answering two requests to /qr, one after the *)
(* other; earlier keeps the first exchange as its caller saw it.           *)
(***************************************************************************)
PairRequests ==
  {Req("GET", "/qr", o, [EmptyQuery EXCEPT !.data = Some(d), !.scale = s, !.ecc = e],
       Absent, TextBody(<<>>)) :
     o \in Origins, d \in {<<"a">>, <<"h", "i">>}, s \in {Absent, Some(<<"8">>), Some(<<"4">>)},
     e \in {Absent, Some(<<"m">>)}}
  \cup
  {Req("POST", "/qr", "http://127.0.0.1:8787", [EmptyQuery EXCEPT !.scale = s],
       Some(TEXT_PLAIN), TextBody(d)) :
     d \in {<<"a">>, <<"h", "i">>}, s \in {Absent, Some(<<"4">>)}}
  \cup
  {Req("POST", "/qr", "https://icanhazqrcode.example", EmptyQuery, Some(APPLICATION_JSON),
       JsonBody(Object(JStr(d), s, Undefined, e))) :
     d \in {<<"a">>, <<"h", "i">>}, s \in {Undefined, JNum(80), JStr(<<"4">>)},
     e \in {Undefined, JStr(<<"M">>)}}

ReceivePair ==
  /\ pc = "idle"
  /\ request' \in PairRequests
  /\ pc' = "fetch"
  /\ UNCHANGED <<env, codecCap, data, input, options, response, codecCalls, earlier, inflight>>

\* the response has left; the process waits for the second request
NextRequest ==
  /\ pc = "done"
  /\ earlier = <<>>
  /\ earlier' = <<[request |-> request, response |-> response, calls |-> codecCalls]>>
  /\ request' = NoRequest
  /\ pc' = "idle"
  /\ data' = Absent
  /\ input' = NoInput
  /\ options' = NoOptions
  /\ response' = NoResponse
  /\ codecCalls' = <<>>
  /\ UNCHANGED <<env, codecCap, inflight>>

NextPair ==
  \/ ReceivePair
  \/ FetchQrFromQuery
  \/ FetchQrFromBody
  \/ QrFromBodyJson
  \/ QrFromBodyText
  \/ NextRequest

SpecPair == Init /\ [][NextPair]_vars

(***************************************************************************)
(* SpecConcurrent: several requests in flight in one process.  A handler   *)
(* runs without interruption up to its await or its return; inflight[i]    *)
(* holds the request, the position and the locals of activation i.         *)
(***************************************************************************)
MaxInFlight == 2    \* number of requests in flight together

InitSlot ==
  [request |-> NoRequest, pc |-> "idle", data |-> Absent, input |-> NoInput,
   options |-> NoOptions, response |-> NoResponse, calls |-> <<>>]

\* a /qr handler returns
Finished(slot, out) ==
  [slot EXCEPT !.pc = "done", !.data = out.data, !.input = out.input, !.options = out.options,
               !.response = out.response, !.calls = out.calls]

\* a handler that needs no option parsing returns
Answered(slot, resp) == [slot EXCEPT !.pc = "done", !.response = resp]

ConcurrentRequests ==
  {Req("GET", p, "https://icanhazqrcode.example", EmptyQuery, Absent, TextBody(<<>>)) :
     p \in {"/", "/nonexistent"}}
  \cup
  {Req("GET", "/qr", "https://icanhazqrcode.example", [EmptyQuery EXCEPT !.data = Some(<<"h", "i">>),
                                                                         !.scale = s],
       Absent, TextBody(<<>>)) : s \in {Absent, Some(<<"4", "1">>)}}
  \cup
  {Req("POST", "/qr", "https://icanhazqrcode.example", [EmptyQuery EXCEPT !.scale = s],
       Some(APPLICATION_JSON), body) :
     s \in {Absent, Some(<<"4">>)},
     body \in {TextBody(<<"{">>), JsonBody(Object(JStr(<<"a">>), Undefined, Undefined, Undefined))}}
  \cup
  {Req("POST", "/qr", "https://icanhazqrcode.example", [EmptyQuery EXCEPT !.border = b],
       Some(TEXT_PLAIN), TextBody(<<"h", "i">>)) : b \in {Absent, Some(<<"2", "1">>)}}

InitConcurrent ==
  /\ env \in Envs
  /\ codecCap \in CodecCaps
  /\ request = NoRequest
  /\ pc = "idle"
  /\ data = Absent
  /\ input = NoInput
  /\ options = NoOptions
  /\ response = NoResponse
  /\ codecCalls = <<>>
  /\ earlier = <<>>
  /\ inflight = [i \in 1..MaxInFlight |-> InitSlot]

\* the variables of the specifications that handle one request at a time
solo == <<env, codecCap, request, pc, data, input, options, response, codecCalls, earlier>>

\* a request arrives and gets its own activation of fetch
Arrive(i) ==
  /\ inflight[i].pc = "idle"
  /\ \E r \in ConcurrentRequests :
       inflight' = [inflight EXCEPT ![i].request = r, ![i].pc = "fetch"]
  /\ UNCHANGED solo

\* fetch, and the handler it calls, up to the first await or the return
Dispatch(i) ==
  /\ inflight[i].pc = "fetch"
  /\ LET r == inflight[i].request
          h == Route(r)
          next ==
            CASE h = "landingPage" -> Answered(inflight[i], landingPage(r, env))
              [] h = "healthResponse" -> Answered(inflight[i], healthResponse)
              [] h = "robotsTxt" -> Answered(inflight[i], robotsTxt(r))
              [] h = "sitemapXml" -> Answered(inflight[i], sitemapXml(r))
              [] h = "llmsTxt" -> Answered(inflight[i], llmsTxt(r))
              [] h = "qrFromQuery" -> Finished(inflight[i], qrFromQuery(r, codecCap))
              [] h = "qrFromBody" ->
                   [inflight[i] EXCEPT
                      !.input = QueryOptions(r),
                      !.pc = IF IsJsonRequest(r) THEN "await request.json()"
                             ELSE "await request.text()"]
              [] OTHER -> Answered(inflight[i], notFound)
     IN inflight' = [inflight EXCEPT ![i] = next]
  /\ UNCHANGED solo

LocalsOf_Shared(i) ==
  inflight[CHOOSE j \in 1..Len(inflight) : inflight[j].pc = inflight[i].pc].input

\* let scale, border, ecc: locals of activation i, kept across its await
LocalsOf(i) == inflight[i].input

ResumeJson(i) ==
  /\ inflight[i].pc = "await request.json()"
  /\ inflight' =
       [inflight EXCEPT ![i] = Finished(@, qrFromBodyJson(@.request, LocalsOf(i), codecCap))]
  /\ UNCHANGED solo

ResumeText(i) ==
  /\ inflight[i].pc = "await request.text()"
  /\ inflight' =
       [inflight EXCEPT ![i] = Finished(@, qrFromBodyText(@.request, LocalsOf(i), codecCap))]
  /\ UNCHANGED solo

NextConcurrent ==
  \E i \in 1..MaxInFlight :
    \/ Arrive(i)
    \/ Dispatch(i)
    \/ ResumeJson(i)
    \/ ResumeText(i)

SpecConcurrent == InitConcurrent /\ [][NextConcurrent]_vars

(***************************************************************************)
(* SpecAds: GET / under every advertising configuration.                   *)
(***************************************************************************)
AdDigitCounts ==
  {0, AD_SLOT_MIN_DIGITS - 1, AD_SLOT_MIN_DIGITS, AD_CLIENT_MIN_DIGITS - 1, AD_CLIENT_MIN_DIGITS,
   AD_CLIENT_MAX_DIGITS, AD_CLIENT_MAX_DIGITS + 1}

AdSuffixes == {<<>>, <<"x">>, <<"\n">>, <<"\"", ">">>}

AdClients ==
  Opt({<<>>} \cup
      {pre \o Rep("1", n) \o suf :
         pre \in {AD_CLIENT_PREFIX, <<"c", "a", "-", "p", "u", "b">>, <<"x">> \o AD_CLIENT_PREFIX,
                  <<"C", "A", "-", "P", "U", "B", "-">>},
         n \in AdDigitCounts, suf \in AdSuffixes})

AdSlots ==
  Opt({<<>>} \cup
      {pre \o Rep("7", n) \o suf : pre \in {<<>>, <<"-">>}, n \in AdDigitCounts, suf \in AdSuffixes})

InitAds ==
  /\ env \in [ADSENSE_CLIENT : AdClients, ADSENSE_SLOT : AdSlots]
  /\ codecCap = NoCodecLimit
  /\ request = Req("GET", "/", "https://icanhazqrcode.example", EmptyQuery, Absent, TextBody(<<>>))
  /\ pc = "fetch"
  /\ data = Absent
  /\ input = NoInput
  /\ options = NoOptions
  /\ response = NoResponse
  /\ codecCalls = <<>>
  /\ earlier = <<>>
  /\ inflight = <<>>

NextAds == FetchLandingPage

SpecAds == InitAds /\ [][NextAds]_vars

(***************************************************************************)
(* Properties of the option normalizer (checked under SpecOptions).        *)
(***************************************************************************)
Parsed == pc = "parsed"

Blank(o) == o.present /\ \A i \in 1..Len(o.val) : o.val[i] \in {" ", "\t", "\n", "\r"}
AbsentOrBlank(o) == ~o.present \/ Blank(o)

\* a base-10 integer literal: an optional sign and one or more decimal digits
LiteralDigits(s) == IF s # <<>> /\ s[1] \in {"-", "+"} THEN Tail(s) ELSE s

IsIntLiteral(s) ==
  /\ LiteralDigits(s) # <<>>
  /\ \A i \in 1..Len(LiteralDigits(s)) :
       LiteralDigits(s)[i] \in {"0", "1", "2", "3", "4", "5", "6", "7", "8", "9"}

RECURSIVE LiteralMagnitude(_, _)
LiteralMagnitude(ds, acc) ==
  IF ds = <<>> THEN acc
  ELSE LiteralMagnitude(Tail(ds), 10 * acc + DigitVal(Head(ds)))

LiteralValue(s) ==
  IF s[1] = "-" THEN 0 - LiteralMagnitude(LiteralDigits(s), 0)
  ELSE LiteralMagnitude(LiteralDigits(s), 0)

NonInteger(o) == o.present /\ ~Blank(o) /\ ~IsIntLiteral(o.val)
Integer(o) == o.present /\ IsIntLiteral(o.val)

ScaleMessage == "scale must be an integer between 1 and 40"
BorderMessage == "border must be an integer between 0 and 20"
EccMessage == "ecc must be one of: L, M, Q, H"

FailsOn(message) == options = [error |-> message]
ScalePasses == ~FailsOn(ScaleMessage)
BorderPasses == ~FailsOn(ScaleMessage) /\ ~FailsOn(BorderMessage)

\* C2: every non-blank raw scale or border that is not exactly a base-10
\* integer literal (a float, hex, trailing garbage, text) makes parseOptions
\* fail with the message of that field; none is accepted as a truncated or
\* prefix-parsed integer.
C2_NonIntegerRejected ==
  Parsed =>
    /\ NonInteger(input.scale) => FailsOn(ScaleMessage)
    /\ NonInteger(input.border) => (FailsOn(ScaleMessage) \/ FailsOn(BorderMessage))
    /\ (NonInteger(input.border) /\ ~input.scale.present) => FailsOn(BorderMessage)

\* C3: a raw scale that is the integer literal n is accepted unchanged iff
\* 1 <= n <= 40, a raw border that is the integer literal n is accepted
\* unchanged iff 0 <= n <= 20; outside the range the failure is the scale
\* message, respectively the border message.
C3_IntegerRange ==
  Parsed =>
    /\ Integer(input.scale) =>
         IF LiteralValue(input.scale.val) \in 1..40
         THEN /\ ScalePasses
              /\ ~IsError(options) => options.scale = LiteralValue(input.scale.val)
              /\ (~input.border.present /\ ~input.ecc.present) => ~IsError(options)
         ELSE FailsOn(ScaleMessage)
    /\ Integer(input.border) =>
         IF LiteralValue(input.border.val) \in 0..20
         THEN /\ ~FailsOn(BorderMessage)
              /\ ~IsError(options) => options.border = LiteralValue(input.border.val)
              /\ (~input.scale.present /\ ~input.ecc.present) => ~IsError(options)
         ELSE /\ FailsOn(ScaleMessage) \/ FailsOn(BorderMessage)
              /\ ~input.scale.present => FailsOn(BorderMessage)

\* the inclusive border boundary 20 is accepted as 20
C3_Witness ==
  /\ Parsed
  /\ input.border = Some(<<"2", "0">>)
  /\ ~IsError(options)
  /\ options.border = 20

\* C5: a supplied ecc is accepted iff its uppercase form is L, M, Q or H and
\* the accepted value is that uppercase form; any other supplied value, "X"
\* and the present-but-empty string included, is rejected with the message
\* enumerating L, M, Q, H; the default M applies only when ecc is absent.
UpperOf(e) ==
  CASE e \in {<<"L">>, <<"l">>} -> <<"L">>
    [] e \in {<<"M">>, <<"m">>} -> <<"M">>
    [] e \in {<<"Q">>, <<"q">>} -> <<"Q">>
    [] e \in {<<"H">>, <<"h">>} -> <<"H">>
    [] OTHER -> <<>>

C5_EccCaseInsensitive ==
  Parsed =>
    /\ (input.ecc.present /\ UpperOf(input.ecc.val) # <<>>) =>
         /\ ~FailsOn(EccMessage)
         /\ BorderPasses => options.ecc = UpperOf(input.ecc.val)
    /\ (input.ecc.present /\ UpperOf(input.ecc.val) = <<>>) =>
         /\ IsError(options)
         /\ BorderPasses => FailsOn(EccMessage)
    /\ (~IsError(options) /\ options.ecc = <<"M">>) =>
         (~input.ecc.present \/ input.ecc.val \in {<<"M">>, <<"m">>})

\* the present-but-empty ecc is rejected although scale and border are fine
C5_Witness ==
  /\ Parsed
  /\ input.ecc = Some(<<>>)
  /\ ~input.scale.present
  /\ options = [error |-> EccMessage]

\* C6 (as stated): a blank ecc (present but empty or whitespace-only) is
\* defaulted to M exactly as an absent one and is never the reason of a
\* rejection.
C6_BlankEccDefaults ==
  (Parsed /\ Blank(input.ecc)) =>
    /\ ~FailsOn(EccMessage)
    /\ ~IsError(options) => options.ecc = <<"M">>

\* C6 (amended): only an absent ecc is defaulted to M; a blank ecc (present
\* but empty or whitespace-only) is never defaulted: the request is rejected,
\* with the ecc message whenever scale and border are valid.
C6_BlankEccRejected ==
  Parsed =>
    /\ Blank(input.ecc) => (IsError(options) /\ (BorderPasses => FailsOn(EccMessage)))
    /\ ~input.ecc.present =>
         (~FailsOn(EccMessage) /\ (~IsError(options) => options.ecc = <<"M">>))

\* a whitespace-only ecc is rejected with the ecc message
C6_Witness ==
  /\ Parsed
  /\ input.ecc = Some(<<" ">>)
  /\ input.scale = Some(<<"4", "0">>)
  /\ options = [error |-> EccMessage]

\* C20: parseOptions checks scale, then border, then ecc, and returns the
\* message of the first field that fails: the scale message whatever border
\* and ecc are, the border message only when scale passes, the ecc message
\* only when scale and border pass.  The result is either the options or an
\* error, never both.  A field fails when it is refused with the two other
\* fields left out.
NoFields == [scale |-> Absent, border |-> Absent, ecc |-> Absent]

FailsAlone(name) == IsError(parseOptions([NoFields EXCEPT ![name] = input[name]]))

C20_FirstFailureOnly ==
  Parsed =>
    /\ DOMAIN options \in {{"error"}, {"scale", "border", "ecc"}}
    /\ IF FailsAlone("scale") THEN options = [error |-> ScaleMessage]
       ELSE IF FailsAlone("border") THEN options = [error |-> BorderMessage]
       ELSE IF FailsAlone("ecc") THEN options = [error |-> EccMessage]
       ELSE ~IsError(options)

\* scale 0, border -1 and ecc X are all refused; the scale message is returned
C20_Witness ==
  /\ Parsed
  /\ input = [scale |-> Some(<<"0">>), border |-> Some(<<"-", "1">>), ecc |-> Some(<<"X">>)]
  /\ FailsAlone("scale")
  /\ FailsAlone("border")
  /\ FailsAlone("ecc")
  /\ options = [error |-> ScaleMessage]

(***************************************************************************)
(* Properties of the request pipeline (checked under Spec) and of the      *)
(* landing page (checked under SpecAds).                                   *)
(***************************************************************************)
Done == pc = "done"
GetQr == request.method = "GET" /\ request.pathname = "/qr"
PostQr == request.method = "POST" /\ request.pathname = "/qr"

ErrorResponse(message) ==
  /\ response.status = 400
  /\ response.body = [kind |-> "json", value |-> [error |-> message]]

CodecInvoked == codecCalls # <<>>

\* the elements of the page that belong to the advertising network
AdScriptTag ==
  Element("script",
          "async src=https://pagead2.googlesyndication.com/pagead/js/adsbygoogle.js?client=${adClient} crossorigin=anonymous",
          <<>>)
AdMetaTag == Element("meta", "name=google-adsense-account content=${adClient}", <<>>)
AdUnitTag == Element("ins", "class=adsbygoogle data-ad-client=${adClient} data-ad-slot=${adSlot}", <<>>)
AdPushTag == Element("script", "(adsbygoogle=window.adsbygoogle||[]).push({});", <<>>)
FallbackTag == Element("div", "class=ad-fallback", <<>>)

PageHas(el) ==
  \E i \in 1..Len(response.body.html) :
    /\ response.body.html[i].tag = el.tag
    /\ response.body.html[i].attrs = el.attrs

LandingPageServed == Done /\ request.method = "GET" /\ request.pathname = "/"

AdsEnabled == safeAdClient(env.ADSENSE_CLIENT).present /\ safeAdSlot(env.ADSENSE_SLOT).present

\* C1: whenever the client id and the slot id are not both present and valid,
\* the landing page holds the fallback placeholder and no element of the
\* advertising network: no ad script tag, no ad meta tag, no ad unit.
C1_NoAdsUnlessBothValid ==
  (LandingPageServed /\ ~AdsEnabled) =>
    /\ PageHas(FallbackTag)
    /\ ~PageHas(AdScriptTag)
    /\ ~PageHas(AdMetaTag)
    /\ ~PageHas(AdUnitTag)
    /\ ~PageHas(AdPushTag)

\* C4: an absent or blank scale is 8, an absent or blank border is 4, an
\* absent ecc is "M"; a request that supplies only data (of at most 2048
\* characters) is encoded with scale 8, border 4 and ecc M.
OptionsParsed == Done /\ options # NoOptions

C4_Defaults ==
  OptionsParsed =>
    /\ AbsentOrBlank(input.scale) =>
         (ScalePasses /\ (~IsError(options) => options.scale = 8))
    /\ AbsentOrBlank(input.border) =>
         (~FailsOn(BorderMessage) /\ (~IsError(options) => options.border = 4))
    /\ ~input.ecc.present =>
         (~FailsOn(EccMessage) /\ (~IsError(options) => options.ecc = <<"M">>))
    /\ (~input.scale.present /\ ~input.border.present /\ ~input.ecc.present) =>
         /\ options = [scale |-> 8, border |-> 4, ecc |-> <<"M">>]
         /\ Len(data.val) <= 2048 =>
              codecCalls = <<[data |-> data.val, ecc |-> <<"M">>, cellSize |-> 8, margin |-> 4]>>

\* a blank scale, a blank border and no ecc: encoded with the defaults
C4_Witness ==
  /\ Done
  /\ GetQr
  /\ request.query.scale = Some(<<" ">>)
  /\ request.query.border = Some(<<" ">>)
  /\ ~request.query.ecc.present
  /\ response.status = 200
  /\ codecCalls = <<[data |-> <<"a">>, ecc |-> <<"M">>, cellSize |-> 8, margin |-> 4]>>

\* C7: GET /qr without a data query parameter yields 400 "Missing required
\* query parameter: data" whatever the other parameters are; the codec is not
\* invoked and the codec-failure message is not returned.
C7_MissingDataOnGet ==
  (Done /\ GetQr /\ ~request.query.data.present) =>
    /\ ErrorResponse("Missing required query parameter: data")
    /\ ~CodecInvoked
    /\ response.body.value.error # "Unable to encode QR for the provided input and options"

\* no data, and a scale that would be rejected: still the missing-data message
C7_Witness ==
  /\ Done
  /\ GetQr
  /\ ~request.query.data.present
  /\ request.query.scale = Some(<<"4", "1">>)
  /\ ErrorResponse("Missing required query parameter: data")

\* C8: on POST /qr with a JSON content type, a body field of an accepted type
\* (number or string for scale and border, string for ecc) is the value that
\* is validated and used whatever the query says; without the body field the
\* query parameter is used, and the default when neither is there.
JsonContentType ==
  request.contentType.present /\ request.contentType.val \in {APPLICATION_JSON, APPLICATION_JSON_UTF8}

JsonObjectPosted ==
  Done /\ PostQr /\ JsonContentType /\ request.body.json.type = "object"

Carries(name) == name \in DOMAIN request.body.json.fields
BodyField(name) == request.body.json.fields[name]
IsWhole(v) == v.type = "number" /\ v.tenths % 10 = 0

NumericPrecedence(name, effective, message, lo, hi) ==
  /\ (Carries(name) /\ BodyField(name).type = "string") =>
       effective = Some(BodyField(name).str)
  /\ (Carries(name) /\ IsWhole(BodyField(name)) /\ options # NoOptions) =>
       IF (BodyField(name).tenths \div 10) \in lo..hi
       THEN ~FailsOn(message) /\ (~IsError(options) => options[name] = BodyField(name).tenths \div 10)
       ELSE IsError(options)
  /\ ~Carries(name) => effective = request.query[name]

C8_BodyOverridesQuery ==
  JsonObjectPosted =>
    /\ NumericPrecedence("scale", input.scale, ScaleMessage, 1, 40)
    /\ NumericPrecedence("border", input.border, BorderMessage, 0, 20)
    /\ (Carries("ecc") /\ BodyField("ecc").type = "string") => input.ecc = Some(BodyField("ecc").str)
    /\ ~Carries("ecc") => input.ecc = request.query.ecc
    /\ (~Carries("scale") /\ ~request.query.scale.present /\ ~IsError(options) /\ options # NoOptions)
         => options.scale = 8

\* query scale=4 with body "scale": 10 is encoded with scale 10
C8_Witness ==
  /\ JsonObjectPosted
  /\ request.query.scale = Some(<<"4">>)
  /\ Carries("scale")
  /\ BodyField("scale") = JNum(100)
  /\ response.status = 200
  /\ options.scale = 10
  /\ codecCalls[1].cellSize = 10

\* C9: on POST /qr whose content type is absent or not JSON the whole body
\* is the payload, verbatim, and the options are those of the query string;
\* an empty body yields 400 "Missing data in request body".  The codec
\* receives the body when the options are valid and the body is at most
\* 2048 characters long.
C9_RawBodyVerbatim ==
  (Done /\ PostQr /\ ~JsonContentType) =>
    IF request.body.text = <<>>
    THEN ErrorResponse("Missing data in request body") /\ ~CodecInvoked
    ELSE /\ data = Some(request.body.text)
         /\ input = [scale |-> request.query.scale, border |-> request.query.border,
                     ecc |-> request.query.ecc]
         /\ options # NoOptions
         /\ (~IsError(options) /\ Len(request.body.text) <= 2048) =>
              (Len(codecCalls) = 1 /\ codecCalls[1].data = request.body.text)

\* a body with surrounding blanks reaches the codec untrimmed
C9_Witness ==
  /\ Done
  /\ PostQr
  /\ request.contentType = Some(TEXT_PLAIN)
  /\ request.body.text = <<" ", "a", " ">>
  /\ response.status = 200
  /\ codecCalls[1].data = <<" ", "a", " ">>

\* C10: on POST /qr with a JSON content type a body that does not parse
\* yields 400 "Invalid JSON body", and a parsed top-level value that is not
\* an object (null, a boolean, a number, a string, an array) yields a 400
\* validation failure; the codec is invoked in neither case.
C10_JsonBodyMustBeObject ==
  (Done /\ PostQr /\ JsonContentType) =>
    /\ request.body.json.type = "SyntaxError" =>
         (ErrorResponse("Invalid JSON body") /\ ~CodecInvoked)
    /\ request.body.json.type \in {"null", "boolean", "number", "string", "array"} =>
         /\ response.status = 400
         /\ response.body.kind = "json"
         /\ DOMAIN response.body.value = {"error"}
         /\ ~CodecInvoked

\* an array passes the object test and is rejected for its missing data
C10_Witness ==
  /\ Done
  /\ PostQr
  /\ JsonContentType
  /\ request.body.json.type = "array"
  /\ ErrorResponse("Missing data in request body")

\* C11: with valid options a payload of exactly 2048 characters passes the
\* length check and is handed to the codec, and a payload of 2049 or more
\* characters is rejected with 400 "Data too long. Max length is 2048
\* characters." without a codec invocation, on GET and on POST alike.
HasPayload ==
  \/ GetQr /\ request.query.data.present
  \/ PostQr /\ ~JsonContentType
  \/ /\ PostQr
     /\ JsonContentType
     /\ request.body.json.type = "object"
     /\ Carries("data")
     /\ BodyField("data").type = "string"

Payload ==
  IF GetQr THEN request.query.data.val
  ELSE IF JsonContentType THEN BodyField("data").str
  ELSE request.body.text

ValidOptions == options # NoOptions /\ ~IsError(options)

C11_LengthBoundary ==
  (Done /\ HasPayload /\ ValidOptions) =>
    IF Len(Payload) >= 2049
    THEN /\ ErrorResponse("Data too long. Max length is 2048 characters.")
         /\ ~CodecInvoked
    ELSE /\ Len(codecCalls) = 1
         /\ codecCalls[1].data = Payload
         /\ response.status = 400 => response.body.value.error = UnableToEncode

\* a GET whose payload is exactly 2048 characters long is encoded
C11_Witness ==
  /\ Done
  /\ GetQr
  /\ Len(request.query.data.val) = 2048
  /\ ValidOptions
  /\ response.status = 200
  /\ Len(codecCalls) = 1
  /\ Len(codecCalls[1].data) = 2048

\* a POST whose payload is 2049 characters long is refused before the codec
C11_TooLongOnPost ==
  /\ Done
  /\ PostQr
  /\ HasPayload
  /\ Len(Payload) = 2049
  /\ ErrorResponse("Data too long. Max length is 2048 characters.")
  /\ ~CodecInvoked

\* C12: whenever the codec fails, whatever it threw, the response is 400 with
\* the one message "Unable to encode QR for the provided input and options"
\* and nothing of the cause; the codec is invoked at most once per request.
CodecFailed == CodecInvoked /\ CodecThrows(codecCalls[1], codecCap)

C12_CodecFailureGeneric ==
  /\ Len(codecCalls) <= 1
  /\ (Done /\ CodecFailed) =>
       /\ ErrorResponse("Unable to encode QR for the provided input and options")
       /\ response.body.value.error # CodecError(codecCalls[1], codecCap)

\* a 2048-character payload beyond the capacity of the codec
C12_Witness ==
  /\ Done
  /\ CodecFailed
  /\ Len(codecCalls) = 1
  /\ Len(codecCalls[1].data) = 2048
  /\ ErrorResponse("Unable to encode QR for the provided input and options")

\* C13: every successful encoding response has status 200, content type
\* image/svg+xml, a content-length equal to the number of bytes of the body,
\* cache-control "public, max-age=300", a weak (W/ prefixed) etag and
\* x-content-type-options nosniff; no 400 or 404 response carries an etag or
\* a public cache-control.
Encoded == Done /\ CodecInvoked /\ ~CodecThrows(codecCalls[1], codecCap)

Header(name) == response.headers[name]
HasHeader(name) == name \in DOMAIN response.headers

LowerHexChars ==
  {"0", "1", "2", "3", "4", "5", "6", "7", "8", "9", "a", "b", "c", "d", "e", "f"}

\* W/"<1 to 8 lowercase hexadecimal digits>"
IsWeakEtag(tag) ==
  /\ Len(tag) >= 5
  /\ Len(tag) <= 12
  /\ SubSeq(tag, 1, 3) = <<"W", "/", "\"">>
  /\ tag[Len(tag)] = "\""
  /\ \A i \in 4..(Len(tag) - 1) : tag[i] \in LowerHexChars

PublicCacheControls == {"public, max-age=300", "public, max-age=3600"}

C13_SuccessHeaders ==
  /\ Encoded =>
       /\ response.status = 200
       /\ response.body.kind = "svg"
       /\ DOMAIN response.headers =
            {"content-type", "content-length", "cache-control", "etag", "x-content-type-options"}
       /\ Header("content-type") = "image/svg+xml; charset=utf-8"
       /\ Header("content-length") = ToString(Len(response.body.bytes))
       /\ Header("cache-control") = "public, max-age=300"
       /\ IsWeakEtag(Header("etag"))
       /\ Header("x-content-type-options") = "nosniff"
  /\ (Done /\ response.status \in {400, 404}) =>
       /\ ~HasHeader("etag")
       /\ HasHeader("cache-control") => Header("cache-control") \notin PublicCacheControls

\* GET /qr?data=a with the defaults: 18 bytes, FNV-1a bb344034
C13_Witness ==
  /\ Encoded
  /\ GetQr
  /\ codecCalls[1] = [data |-> <<"a">>, ecc |-> <<"M">>, cellSize |-> 8, margin |-> 4]
  /\ response.status = 200
  /\ Header("content-length") = "18"
  /\ Header("etag") = <<"W", "/", "\"", "b", "b", "3", "4", "4", "0", "3", "4", "\"">>

\* C15: every validation failure and every codec failure on /qr, over GET,
\* JSON POST and raw POST, yields status 400 with a JSON object whose only
\* field is error, holding the message, and cache-control no-store; a
\* failure is never answered with 200 or with an image.
QrDone == Done /\ (GetQr \/ PostQr)

ValidationFailed ==
  \/ ~HasPayload
  \/ Payload = <<>>
  \/ options # NoOptions /\ IsError(options)
  \/ Len(Payload) > 2048

QrFailed == ValidationFailed \/ CodecFailed

QrMessages ==
  {"Missing required query parameter: data", "Missing data in request body",
   "Invalid JSON body", "JSON body must be an object",
   ScaleMessage, BorderMessage, EccMessage,
   "Data too long. Max length is 2048 characters.",
   "Unable to encode QR for the provided input and options"}

C15_FailuresAre400 ==
  QrDone =>
    IF QrFailed
    THEN /\ response.status = 400
         /\ response.body.kind = "json"
         /\ DOMAIN response.body.value = {"error"}
         /\ response.body.value.error \in QrMessages
         /\ Header("cache-control") = "no-store"
    ELSE response.status = 200 /\ response.body.kind = "svg"

\* a JSON POST whose body scale is out of range
C15_Witness ==
  /\ QrDone
  /\ PostQr
  /\ JsonContentType
  /\ HasPayload
  /\ options = [error |-> ScaleMessage]
  /\ ErrorResponse(ScaleMessage)
  /\ Header("cache-control") = "no-store"

\* C16: every JSON response (the 400 errors, the 404 and the /health
\* metadata) carries cache-control: no-store.
JsonResponse ==
  /\ Done
  /\ Header("content-type") = "application/json; charset=utf-8"

C16_JsonNoStore ==
  /\ JsonResponse => (HasHeader("cache-control") /\ Header("cache-control") = "no-store")
  /\ (Done /\ (response.status \in {400, 404} \/ request.pathname = "/health")) => JsonResponse

\* the 404 of an unknown path
C16_Witness ==
  /\ Done
  /\ request.pathname = "/nonexistent"
  /\ response.status = 404
  /\ response.body.kind = "json"
  /\ Header("cache-control") = "no-store"

\* C17: GET /health answers 200 with a JSON object naming the service and
\* listing its endpoints; it sets no header of its own, so its caching
\* directive is the one every JSON response carries.
HealthServed == Done /\ request.method = "GET" /\ request.pathname = "/health"

JsonDefaultHeaders ==
  "content-type" :> "application/json; charset=utf-8" @@ "cache-control" :> "no-store"

C17_Health ==
  HealthServed =>
    /\ response.status = 200
    /\ response.body.kind = "json"
    /\ DOMAIN response.body.value = {"service", "endpoints"}
    /\ response.body.value.service = "icanhazqrcode"
    /\ Len(response.body.value.endpoints) = 6
    /\ "GET /qr?data=<text>&scale=8&border=4&ecc=M" \in
         {response.body.value.endpoints[i] : i \in 1..Len(response.body.value.endpoints)}
    /\ response.headers = JsonDefaultHeaders

C17_Witness ==
  /\ HealthServed
  /\ response.status = 200
  /\ response.body.value.service = "icanhazqrcode"
  /\ response.headers = JsonDefaultHeaders

\* C18: dispatch is total and exclusive.  GET on exactly /, /health,
\* /robots.txt, /sitemap.xml, /llms.txt, /qr and POST on exactly /qr reach
\* their own handler; every other (method, path) pair, trailing-slash
\* variants included, yields 404 with {"error": "Not Found", "hint": ...};
\* a request reaches exactly one handler.
RouteTable ==
  <<"GET", "/">> :> "landingPage" @@ <<"GET", "/health">> :> "healthResponse"
    @@ <<"GET", "/robots.txt">> :> "robotsTxt" @@ <<"GET", "/sitemap.xml">> :> "sitemapXml"
    @@ <<"GET", "/llms.txt">> :> "llmsTxt" @@ <<"GET", "/qr">> :> "qrFromQuery"
    @@ <<"POST", "/qr">> :> "qrFromBody"

Dispatching == pc = "fetch"
Requested == <<request.method, request.pathname>>
Expected == IF Requested \in DOMAIN RouteTable THEN RouteTable[Requested] ELSE "notFound"

Handlers ==
  {"landingPage", "healthResponse", "robotsTxt", "sitemapXml", "llmsTxt", "qrFromQuery",
   "qrFromBody", "notFound"}

\* the handlers whose test in fetch the request passes first
Reached == {h \in Handlers : Route(request) = h}

\* what tells the handlers apart in the response
Served ==
  CASE response.status = 404 -> "notFound"
    [] response.body.kind = "html" -> "landingPage"
    [] response.body.kind = "robots.txt" -> "robotsTxt"
    [] response.body.kind = "sitemap.xml" -> "sitemapXml"
    [] response.body.kind = "llms.txt" -> "llmsTxt"
    [] response.body.kind = "json" /\ response.status = 200 -> "healthResponse"
    [] OTHER -> IF request.method = "GET" THEN "qrFromQuery" ELSE "qrFromBody"

NotFoundResponse ==
  /\ response.status = 404
  /\ response.body.kind = "json"
  /\ DOMAIN response.body.value = {"error", "hint"}
  /\ response.body.value.error = "Not Found"
  /\ response.body.value.hint =
       "Use GET /qr?data=hello or POST /qr with raw text or JSON {\"data\":\"hello\"}"

C18_Dispatch ==
  /\ Dispatching => Reached = {Expected}
  /\ Done =>
       /\ Served = Expected
       /\ Expected = "notFound" => NotFoundResponse
       /\ Expected \in {"qrFromQuery", "qrFromBody"} => response.status \in {200, 400}

\* GET /qr/ is not GET /qr
C18_Witness ==
  /\ Done
  /\ request.method = "GET"
  /\ request.pathname = "/qr/"
  /\ request.query.data = Some(<<"a">>)
  /\ NotFoundResponse
  /\ ~CodecInvoked

\* C19: the sanitizer accepts a client id iff it is exactly "ca-pub-"
\* followed by 10 to 20 decimal digits, and a slot id iff it is 5 to 20
\* decimal digits and nothing else; absent and empty values are invalid; each
\* is judged without regard to the other and an accepted value is returned
\* unchanged.
DecimalDigits == {"0", "1", "2", "3", "4", "5", "6", "7", "8", "9"}

ClientIdValid(v) ==
  /\ v.present
  /\ (Len(v.val) - 7) \in 10..20
  /\ SubSeq(v.val, 1, 7) = <<"c", "a", "-", "p", "u", "b", "-">>
  /\ \A i \in 8..Len(v.val) : v.val[i] \in DecimalDigits

SlotIdValid(v) ==
  /\ v.present
  /\ Len(v.val) \in 5..20
  /\ \A i \in 1..Len(v.val) : v.val[i] \in DecimalDigits

PageHolds(el) == \E i \in 1..Len(response.body.html) : response.body.html[i] = el

C19_AdSanitizer ==
  /\ safeAdClient(env.ADSENSE_CLIENT) =
       (IF ClientIdValid(env.ADSENSE_CLIENT) THEN env.ADSENSE_CLIENT ELSE Absent)
  /\ safeAdSlot(env.ADSENSE_SLOT) =
       (IF SlotIdValid(env.ADSENSE_SLOT) THEN env.ADSENSE_SLOT ELSE Absent)
  /\ LandingPageServed =>
       /\ ClientIdValid(env.ADSENSE_CLIENT) <=>
            PageHolds([AdScriptTag EXCEPT !.args = <<env.ADSENSE_CLIENT.val>>])
       /\ ClientIdValid(env.ADSENSE_CLIENT) <=> PageHas(AdScriptTag)
       /\ (ClientIdValid(env.ADSENSE_CLIENT) /\ SlotIdValid(env.ADSENSE_SLOT)) <=>
            PageHolds([AdUnitTag EXCEPT
                         !.args = <<env.ADSENSE_CLIENT.val, env.ADSENSE_SLOT.val>>])
       /\ (ClientIdValid(env.ADSENSE_CLIENT) /\ SlotIdValid(env.ADSENSE_SLOT)) <=>
            PageHas(AdUnitTag)

\* a client id of 20 digits is accepted next to a slot id of 21 digits
C19_Witness ==
  /\ LandingPageServed
  /\ env.ADSENSE_CLIENT = Some(AD_CLIENT_PREFIX \o Rep("1", 20))
  /\ env.ADSENSE_SLOT = Some(Rep("7", 21))
  /\ PageHolds([AdScriptTag EXCEPT !.args = <<env.ADSENSE_CLIENT.val>>])
  /\ ~PageHas(AdUnitTag)

(***************************************************************************)
(* Properties of two exchanges of one process (checked under SpecPair).    *)
(***************************************************************************)
\* C14: two requests that resolve to the same (data, scale, border, ecc),
\* in either order and over GET or POST, receive byte-identical bodies and
\* identical etags; responses with the same body carry the same etag,
\* whatever the requests were.
SecondDone == Done /\ earlier # <<>>
First == earlier[1]

BothEncoded ==
  /\ SecondDone
  /\ First.response.status = 200
  /\ response.status = 200

C14_Deterministic ==
  /\ (SecondDone /\ CodecInvoked /\ First.calls = codecCalls) =>
       /\ response.status = First.response.status
       /\ response.body = First.response.body
       /\ response.headers = First.response.headers
  /\ (BothEncoded /\ response.body.bytes = First.response.body.bytes) =>
       Header("etag") = First.response.headers["etag"]

\* GET /qr?data=a from one origin, then POST /qr {"data":"a","scale":8}
C14_Witness ==
  /\ BothEncoded
  /\ First.request.method = "GET"
  /\ First.request.origin = "http://127.0.0.1:8787"
  /\ ~First.request.query.scale.present
  /\ PostQr
  /\ JsonContentType
  /\ Carries("scale")
  /\ BodyField("scale") = JNum(80)
  /\ codecCalls = First.calls
  /\ Header("etag") = First.response.headers["etag"]
  /\ response.body = First.response.body

(***************************************************************************)
(* Further properties of the request pipeline (checked under Spec).        *)
(***************************************************************************)
\* C21: the etag of a successful response is W/"h", h being the 32-bit
\* FNV-1a hash (offset basis 2166136261, prime 16777619, xor then multiply,
\* modulo 2^32) of the bytes sent as the body, written as an unsigned number
\* in lowercase hexadecimal, hence between 0 and 2^32 - 1.
\* A 32-bit word is held as two 16-bit halves, 2166136261 = 33052 * 2^16 + 40389.
Bit(x, i) == (x \div (2 ^ i)) % 2
DiffBit(a, b, i) == ((Bit(a, i) + Bit(b, i)) % 2) * (2 ^ i)

XorByte(a, b) ==
  DiffBit(a, b, 0) + DiffBit(a, b, 1) + DiffBit(a, b, 2) + DiffBit(a, b, 3)
    + DiffBit(a, b, 4) + DiffBit(a, b, 5) + DiffBit(a, b, 6) + DiffBit(a, b, 7)

\* (w xor byte) * (2^24 + 403) modulo 2^32
FnvStep(w, byte) ==
  LET x == [hi |-> w.hi, lo |-> ((w.lo \div 256) * 256) + XorByte(w.lo % 256, byte)]
      low == x.lo * 403
      high == (x.hi * 403) + (low \div 65536) + ((x.lo % 256) * 256)
  IN [hi |-> high % 65536, lo |-> low % 65536]

RECURSIVE FnvOver(_, _, _, _)
FnvOver(bytes, from, to, w) ==
  IF from > to THEN w
  ELSE IF from = to THEN FnvStep(w, bytes[from])
  ELSE LET left == FnvOver(bytes, from, (from + to) \div 2, w)
       IN IF left.lo >= 0 THEN FnvOver(bytes, ((from + to) \div 2) + 1, to, left) ELSE left

Fnv32(bytes) == FnvOver(bytes, 1, Len(bytes), [hi |-> 33052, lo |-> 40389])

Nibbles(w) ==
  <<w.hi \div 4096, (w.hi \div 256) % 16, (w.hi \div 16) % 16, w.hi % 16,
    w.lo \div 4096, (w.lo \div 256) % 16, (w.lo \div 16) % 16, w.lo % 16>>

LowerHex == <<"0", "1", "2", "3", "4", "5", "6", "7", "8", "9", "a", "b", "c", "d", "e", "f">>

\* the hexadecimal digits of w without leading zeros
Hex(w) ==
  LET n == Nibbles(w)
      lead == IF \E i \in 1..8 : n[i] # 0
              THEN CHOOSE i \in 1..8 : n[i] # 0 /\ \A j \in 1..(i - 1) : n[j] = 0
              ELSE 8
  IN [k \in 1..(9 - lead) |-> LowerHex[n[lead + k - 1] + 1]]

C21_EtagIsFnv1aOfBody ==
  Encoded =>
    /\ Header("etag") = <<"W", "/", "\"">> \o Hex(Fnv32(response.body.bytes)) \o <<"\"">>
    /\ \A i \in 1..Len(response.body.bytes) : response.body.bytes[i] \in 0..255
    /\ Len(Header("etag")) - 4 \in 1..8

\* the 2065 bytes of a 2048-character payload hash to 69edce53
C21_Witness ==
  /\ Encoded
  /\ Len(response.body.bytes) = 2065
  /\ Header("content-length") = "2065"
  /\ Header("etag") = <<"W", "/", "\"", "6", "9", "e", "d", "c", "e", "5", "3", "\"">>

\* C23: whenever the codec is invoked it receives a payload of at most 2048
\* characters, an integer scale in 1..40, an integer border in 0..20 and an
\* error-correction level among L, M, Q, H, and these are the payload the
\* handler extracted and the options parseOptions returned, unchanged.
EccLevels == {<<"L">>, <<"M">>, <<"Q">>, <<"H">>}

WithinBounds(call) ==
  /\ Len(call.data) <= 2048
  /\ call.cellSize \in 1..40
  /\ call.margin \in 0..20
  /\ call.ecc \in EccLevels

C23_CodecArgumentsValid ==
  \A i \in 1..Len(codecCalls) :
    /\ WithinBounds(codecCalls[i])
    /\ DOMAIN codecCalls[i] = {"data", "cellSize", "margin", "ecc"}
    /\ HasPayload
    /\ codecCalls[i].data = Payload
    /\ data = Some(Payload)
    /\ ValidOptions
    /\ codecCalls[i].cellSize = options.scale
    /\ codecCalls[i].margin = options.border
    /\ codecCalls[i].ecc = options.ecc

\* GET /qr?data=hi&scale=4&border=0&ecc=q reaches the codec as (hi, 4, 0, Q)
C23_Witness ==
  /\ Done
  /\ GetQr
  /\ request.query.ecc = Some(<<"q">>)
  /\ codecCalls = <<[data |-> <<"h", "i">>, ecc |-> <<"Q">>, cellSize |-> 4, margin |-> 0]>>
  /\ options = [scale |-> 4, border |-> 0, ecc |-> <<"Q">>]

\* C25: every request reaches the terminal state, where exactly one
\* response has been emitted, in a single pass: no handler is entered again
\* and nothing is retried; every failure path (validation error, malformed
\* JSON, codec fault, routing miss) ends in a well-formed response.
\* Checked under FairSpec.
PcRank ==
  CASE pc = "idle" -> 0
    [] pc = "fetch" -> 1
    [] pc \in {"await request.json()", "await request.text()"} -> 2
    [] pc = "done" -> 3
    [] OTHER -> 4

WellFormed ==
  /\ response.status \in {200, 400, 404}
  /\ HasHeader("content-type")
  /\ response.body.kind \in {"json", "svg", "html", "robots.txt", "sitemap.xml", "llms.txt"}
  /\ response.status \in {400, 404} =>
       (response.body.kind = "json" /\ "error" \in DOMAIN response.body.value)

OneResponse ==
  /\ Done => (response # NoResponse /\ WellFormed /\ Len(codecCalls) <= 1)
  /\ ~Done => (response = NoResponse /\ codecCalls = <<>>)

SinglePass ==
  /\ PcRank' > PcRank
  /\ response' # response => (response = NoResponse /\ pc' = "done")

C25_OnePassToResponse ==
  /\ (pc = "fetch") ~> Done
  /\ []OneResponse
  /\ [][SinglePass]_vars

\* a body that is not JSON ends in its 400, one response, no codec call
C25_Witness ==
  /\ Done
  /\ PostQr
  /\ JsonContentType
  /\ request.body.json.type = "SyntaxError"
  /\ WellFormed
  /\ ErrorResponse("Invalid JSON body")
  /\ PcRank = 3

\* C26: the checks on /qr run in the order payload presence, options
\* (scale, border, ecc), payload length, codec.  A request without a payload
\* gets the missing-payload message whatever its options are, and the
\* options are not parsed; a request with a payload and a rejected option
\* gets the option's message whatever the length of the payload; the length
\* message is returned only with accepted options, and only then is the
\* codec called.
PayloadChecked ==
  \/ GetQr
  \/ PostQr /\ ~JsonContentType
  \/ PostQr /\ JsonContentType /\ request.body.json.type \in {"object", "array"}

MissingPayload == ~HasPayload \/ Payload = <<>>

MissingMessage ==
  IF GetQr THEN "Missing required query parameter: data" ELSE "Missing data in request body"

EffectiveInput == IF GetQr THEN QueryOptions(request) ELSE input

C26_CheckOrder ==
  (QrDone /\ PayloadChecked) =>
    IF MissingPayload
    THEN ErrorResponse(MissingMessage) /\ options = NoOptions /\ ~CodecInvoked
    ELSE /\ options = parseOptions(EffectiveInput)
         /\ IF IsError(options)
            THEN ErrorResponse(options.error) /\ ~CodecInvoked
            ELSE IF Len(Payload) > 2048
            THEN ErrorResponse("Data too long. Max length is 2048 characters.") /\ ~CodecInvoked
            ELSE Len(codecCalls) = 1

\* a payload of 2049 characters with scale 41 gets the message of scale
C26_Witness ==
  /\ Done
  /\ GetQr
  /\ request.query.data.present
  /\ Len(request.query.data.val) = 2049
  /\ request.query.scale = Some(<<"4", "1">>)
  /\ ErrorResponse(ScaleMessage)
  /\ ~CodecInvoked

\* C27: on POST /qr with a JSON content type the payload comes from the
\* body alone.  When the body is an array, or an object whose data field is
\* absent, not a string or the empty string, the response is 400 "Missing
\* data in request body" and the codec is not called, also when the URL has
\* a non-empty data parameter; on no POST is the query's data the payload.
BodyDataMissing ==
  \/ request.body.json.type = "array"
  \/ /\ request.body.json.type = "object"
     /\ \/ ~Carries("data")
        \/ BodyField("data").type # "string"
        \/ BodyField("data").str = <<>>

C27_PayloadFromBodyOnly ==
  (Done /\ PostQr) =>
    /\ (JsonContentType /\ BodyDataMissing) =>
         /\ ErrorResponse("Missing data in request body")
         /\ ~CodecInvoked
         /\ data \in {Absent, Some(<<>>)}
    /\ data.present => (HasPayload /\ data.val = Payload)
    /\ CodecInvoked => (HasPayload /\ codecCalls[1].data = Payload)

\* "data": 5 in the body and data=q in the URL: the 400, and q is not used
C27_Witness ==
  /\ Done
  /\ PostQr
  /\ JsonContentType
  /\ request.body.json.type = "object"
  /\ Carries("data")
  /\ BodyField("data") = JNum(50)
  /\ request.query.data = Some(<<"q">>)
  /\ ErrorResponse("Missing data in request body")
  /\ data = Absent

\* C28: POST /qr takes the JSON branch exactly when the value of the
\* content-type header contains the lowercase text application/json.  With
\* no header, or a value without that text (Application/JSON among them),
\* the whole body is the payload as it was sent, also when it is JSON text,
\* and the options are those of the query: no field of the body replaces
\* one.
HasSubstring(s, sub) ==
  \E i \in 0..(Len(s) - Len(sub)) : SubSeq(s, i + 1, i + Len(sub)) = sub

NamesJson ==
  /\ request.contentType.present
  /\ HasSubstring(request.contentType.val, APPLICATION_JSON)

BranchOnContentType ==
  (pc = "fetch" /\ PostQr) =>
    pc' = IF NamesJson THEN "await request.json()" ELSE "await request.text()"

BodyIsPayload ==
  (Done /\ PostQr /\ ~NamesJson) =>
    /\ data = Some(request.body.text)
    /\ input = QueryOptions(request)
    /\ CodecInvoked => codecCalls[1].data = request.body.text
    /\ options # NoOptions => options = parseOptions(QueryOptions(request))

C28_JsonBranchIffLowercase == []BodyIsPayload /\ [][BranchOnContentType]_vars

\* Application/JSON with {"data":"a","scale":10,"ecc":"q"}: the text of the
\* object is encoded, with the default scale and level
C28_Witness ==
  /\ Done
  /\ PostQr
  /\ request.contentType = Some(APPLICATION_JSON_UPPER)
  /\ request.body.json.type = "object"
  /\ request.query.scale = Absent
  /\ request.query.ecc = Absent
  /\ response.status = 200
  /\ codecCalls[1].data = request.body.text
  /\ Len(request.body.text) > 10
  /\ codecCalls[1].cellSize = 8
  /\ codecCalls[1].ecc = <<"M">>

\* C29: on POST /qr with a JSON content type, a scale or border field of
\* the body that is a string, empty or of blanks only, still takes the place
\* of the query parameter of that name: the value in effect is the default
\* (8 for scale, 4 for border), not the query's.  A field of another type
\* (boolean, null, object, array) leaves the query's value in effect.
OtherTypes == {"boolean", "null", "object", "array"}

BlankField(name) ==
  Carries(name) /\ BodyField(name).type = "string" /\ Blank(Some(BodyField(name).str))

BlankReplacesQuery(name, message, default) ==
  /\ BlankField(name) =>
       /\ input[name] = Some(BodyField(name).str)
       /\ ~FailsOn(message)
       /\ ~IsError(options) => options[name] = default
  /\ (Carries(name) /\ BodyField(name).type \in OtherTypes) =>
       /\ input[name] = request.query[name]
       /\ options = parseOptions([input EXCEPT ![name] = request.query[name]])

C29_BlankBodyFieldMeansDefault ==
  (JsonObjectPosted /\ options # NoOptions) =>
    /\ BlankReplacesQuery("scale", ScaleMessage, 8)
    /\ BlankReplacesQuery("border", BorderMessage, 4)

\* scale=0 in the URL and "scale": " " in the body: encoded with scale 8
C29_Witness ==
  /\ JsonObjectPosted
  /\ request.query.scale = Some(<<"0">>)
  /\ Carries("scale")
  /\ BodyField("scale") = JStr(<<" ">>)
  /\ response.status = 200
  /\ options.scale = 8
  /\ codecCalls[1].cellSize = 8

\* border=2 in the URL and "border": [] in the body: encoded with border 2
C29_NestedFieldIgnored ==
  /\ JsonObjectPosted
  /\ request.query.border = Some(<<"2">>)
  /\ Carries("border")
  /\ BodyField("border").type = "array"
  /\ response.status = 200
  /\ codecCalls[1].margin = 2

\* C30: the payload given to the codec is never the empty string.  GET /qr
\* with data present and empty, POST with an empty raw body and POST JSON
\* with "data": "" each end in the 400 for missing data, with the options
\* not parsed and the codec not called; every 200 of /qr answers a payload
\* of 1 to 2048 characters, the one the codec was given.
EmptyPayload == HasPayload /\ Payload = <<>>

C30_PayloadNeverEmpty ==
  QrDone =>
    /\ \A i \in 1..Len(codecCalls) : codecCalls[i].data # <<>>
    /\ EmptyPayload =>
         /\ ErrorResponse(MissingMessage)
         /\ options = NoOptions
         /\ ~CodecInvoked
    /\ response.status = 200 =>
         /\ HasPayload
         /\ Len(Payload) \in 1..2048
         /\ Len(codecCalls) = 1
         /\ codecCalls[1].data = Payload

\* "data": "" with "scale": 0 in a JSON body: missing data, scale not parsed
C30_Witness ==
  /\ JsonObjectPosted
  /\ Carries("data")
  /\ BodyField("data") = JStr(<<>>)
  /\ Carries("scale")
  /\ BodyField("scale") = JNum(0)
  /\ ErrorResponse("Missing data in request body")
  /\ options = NoOptions
  /\ ~CodecInvoked

\* data= on GET, with an unlimited codec: the 400, not an empty code
C30_EmptyOnGet ==
  /\ Done
  /\ GetQr
  /\ request.query.data = Some(<<>>)
  /\ codecCap = NoCodecLimit
  /\ ErrorResponse("Missing required query parameter: data")
  /\ ~CodecInvoked

(***************************************************************************)
(* A further property of the landing page (checked under SpecAds).         *)
(***************************************************************************)
\* C22: when the configured client id is absent or invalid the landing page
\* holds no third-party script tag, no ad-account meta tag and no ad unit,
\* whatever the slot id is; a configuration string that fails validation is
\* never interpolated into the page.
ArgsOf(el) == {el.args[j] : j \in 1..Len(el.args)}

InterpolatedValues ==
  UNION {ArgsOf(response.body.html[i]) : i \in 1..Len(response.body.html)}

C22_InvalidClientNoAds ==
  LandingPageServed =>
    /\ ~ClientIdValid(env.ADSENSE_CLIENT) =>
         /\ ~PageHas(AdScriptTag)
         /\ ~PageHas(AdMetaTag)
         /\ ~PageHas(AdUnitTag)
         /\ ~PageHas(AdPushTag)
         /\ PageHas(FallbackTag)
         /\ InterpolatedValues = {}
    /\ \A v \in InterpolatedValues : ClientIdValid(Some(v)) \/ SlotIdValid(Some(v))
    /\ ~SlotIdValid(env.ADSENSE_SLOT) =>
         (env.ADSENSE_SLOT.present => env.ADSENSE_SLOT.val \notin InterpolatedValues)

\* a client id that closes the attribute and the tag, next to a valid slot id
C22_Witness ==
  /\ LandingPageServed
  /\ env.ADSENSE_CLIENT = Some(AD_CLIENT_PREFIX \o Rep("1", 10) \o <<"\"", ">">>)
  /\ env.ADSENSE_SLOT = Some(Rep("7", 5))
  /\ PageHas(FallbackTag)
  /\ ~PageHas(AdScriptTag)
  /\ InterpolatedValues = {}

(***************************************************************************)
(* A property of requests in flight together (checked under                *)
(* SpecConcurrent).                                                        *)
(***************************************************************************)
\* C24: under every interleaving of the requests in flight, the awaits of
\* POST /qr included, each request gets the response it would get if it
\* were handled alone, so that a failure of one request never changes the
\* response of another; no handler writes the advertising configuration.
HandledAlone(r) ==
  LET h == Route(r)
  IN CASE h = "landingPage" -> [response |-> landingPage(r, env), calls |-> <<>>]
       [] h = "healthResponse" -> [response |-> healthResponse, calls |-> <<>>]
       [] h = "robotsTxt" -> [response |-> robotsTxt(r), calls |-> <<>>]
       [] h = "sitemapXml" -> [response |-> sitemapXml(r), calls |-> <<>>]
       [] h = "llmsTxt" -> [response |-> llmsTxt(r), calls |-> <<>>]
       [] h = "qrFromQuery" -> qrFromQuery(r, codecCap)
       [] h = "qrFromBody" ->
            IF IsJsonRequest(r) THEN qrFromBodyJson(r, QueryOptions(r), codecCap)
            ELSE qrFromBodyText(r, QueryOptions(r), codecCap)
       [] OTHER -> [response |-> notFound, calls |-> <<>>]

Activations == 1..Len(inflight)
Completed(i) == inflight[i].pc = "done"

Isolated ==
  \A i \in Activations :
    /\ Completed(i) =>
         /\ inflight[i].response = HandledAlone(inflight[i].request).response
         /\ inflight[i].calls = HandledAlone(inflight[i].request).calls
    /\ ~Completed(i) =>
         (inflight[i].response = NoResponse /\ inflight[i].calls = <<>>)
    /\ \A j \in Activations :
         (Completed(i) /\ Completed(j) /\ inflight[i].request = inflight[j].request) =>
           inflight[i].response = inflight[j].response

C24_RequestIsolation == []Isolated /\ [][env' = env /\ codecCap' = codecCap]_vars

\* two POSTs suspended together: the first ends in 400 Invalid JSON body,
\* the second, with another query, is encoded
C24_Witness ==
  /\ Len(inflight) >= 2
  /\ Completed(1)
  /\ Completed(2)
  /\ inflight[1].request.method = "POST"
  /\ inflight[1].request.query.scale = Some(<<"4">>)
  /\ inflight[1].response.status = 400
  /\ inflight[1].response.body.value.error = "Invalid JSON body"
  /\ inflight[2].request.method = "POST"
  /\ inflight[2].request.query.scale = Absent
  /\ inflight[2].response.status = 200
  /\ inflight[2].calls = <<[data |-> <<"a">>, ecc |-> <<"M">>, cellSize |-> 8, margin |-> 4]>>

====
